---- MODULE Spec2Model ----
(***************************************************************************)
(* A model of the eufy_clean wire-format codec                             *)
(* (custom_components/eufy_clean/api/proto_utils.py) and of the adaptive   *)
(* map parser (custom_components/eufy_clean/camera.py).                    *)
(*                                                                         *)
(* Byte strings are sequences of 0..255; Python positions are 0-based, so  *)
(* data[pos] of the source is data[pos + 1] here.  Text strings are        *)
(* sequences of Unicode code points.  The functions of the source are      *)
(* operators with the source's names; every specification draws the        *)
(* inputs of a group of functions in its Init and applies one function     *)
(* per action.                                                             *)
(***************************************************************************)
EXTENDS Integers, Sequences, FiniteSets, TLC

VARIABLES
    inp,    \* the arguments the caller passes, or the device's configuration
            \* (fixed by Init)
    wire,   \* the bytes / base64 text travelling between encoder and decoder;
            \* for a device, the DPS update received or the messages published
    pc,     \* the last function applied ("start" before any); for an
            \* MqttDevice, the position of send_command
    out     \* what the last decoder returned; for a device, the object's fields

vars == <<inp, wire, pc, out>>

(***************************************************************************)
(* Bounds of the model                                                     *)
(***************************************************************************)
\* encode_varint is applied to every integer 0..MaxVarint (and to LargeVarints)
MaxVarint == 300
\* raw buffers handed to decode_varint have at most MaxBuf bytes
MaxBuf == 3

(***************************************************************************)
(* Python helpers                                                          *)
(***************************************************************************)
Min(a, b) == IF a < b THEN a ELSE b

RECURSIVE Pow2(_)
\* 1 << k
Pow2(k) == IF k = 0 THEN 1 ELSE 2 * Pow2(k - 1)

\* data[a:b] for 0 <= a: the slice is cut at the end of data, never an error
Slice(data, a, b) ==
    LET hi == Min(b, Len(data))
    IN  IF a >= hi THEN <<>> ELSE SubSeq(data, a + 1, hi)

RECURSIVE BitOr(_, _)
\* a | b on non-negative integers
BitOr(a, b) ==
    IF a = 0 THEN b
    ELSE IF b = 0 THEN a
    ELSE (IF a % 2 = 1 \/ b % 2 = 1 THEN 1 ELSE 0) + 2 * BitOr(a \div 2, b \div 2)

(***************************************************************************)
(* 4.1 Varint codec                                                        *)
(***************************************************************************)
RECURSIVE DecodeVarintLoopNoBreak(_, _, _, _, _)
\* decode_varint without the break of line 47-48 (used as a mutant)
DecodeVarintLoopNoBreak(data, pos, result, shift, reads) ==
    IF pos < Len(data)
    THEN LET byte == data[pos + 1]
             r    == result + (byte % 128) * Pow2(shift)
         IN  DecodeVarintLoopNoBreak(data, pos + 1, r, shift + 7, Append(reads, pos))
    ELSE [value |-> result, pos |-> pos, reads |-> reads]

RECURSIVE DecodeVarintLoop(_, _, _, _, _)
\* The while loop of decode_varint.  result |= (byte & 0x7F) << shift adds
\* the group, since result < 2^shift; reads lists the indices of data the
\* loop dereferences (line 44).
DecodeVarintLoop(data, pos, result, shift, reads) ==
    IF pos < Len(data)
    THEN LET byte == data[pos + 1]
             r    == result + (byte % 128) * Pow2(shift)
         IN  IF (byte \div 128) % 2 = 0
             THEN [value |-> r, pos |-> pos + 1, reads |-> Append(reads, pos)]
             ELSE DecodeVarintLoop(data, pos + 1, r, shift + 7, Append(reads, pos))
    ELSE [value |-> result, pos |-> pos, reads |-> reads]

\* decode_varint(data, pos) with the indices it read
DecodeVarintRun(data, pos) == DecodeVarintLoop(data, pos, 0, 0, <<>>)

\* decode_varint(data, pos) -> (value, new_position)
decode_varint(data, pos) ==
    LET r == DecodeVarintRun(data, pos) IN <<r.value, r.pos>>

RECURSIVE EncodeVarintOffByOne(_)
\* encode_varint with "while value > 128" (used as a mutant)
EncodeVarintOffByOne(value) ==
    IF value > 128
    THEN <<(value % 128) + 128>> \o EncodeVarintOffByOne(value \div 128)
    ELSE <<value>>

RECURSIVE encode_varint(_)
\* encode_varint(value) -> bytes; (value & 0x7F) | 0x80 is value % 128 + 128
encode_varint(value) ==
    IF value > 127
    THEN <<(value % 128) + 128>> \o encode_varint(value \div 128)
    ELSE <<value>>

(***************************************************************************)
(* SpecVarint: the varint codec on integers and on raw buffers             *)
(***************************************************************************)
\* integers at the 7-bit group boundaries, up to the largest 32-bit value
LargeVarints ==
    {16383, 16384, 16385, 2097151, 2097152, 268435455, 268435456, 2147483647}

VarintInputs == (0 .. MaxVarint) \cup LargeVarints

\* bytes with and without the continuation bit
VarintBytes == {0, 1, 127, 128, 129, 255}

RECURSIVE SeqsUpTo(_, _)
\* all sequences over S of length 0..n
SeqsUpTo(S, n) ==
    IF n = 0 THEN {<<>>}
    ELSE LET shorter == SeqsUpTo(S, n - 1)
         IN  shorter \cup {Append(s, x) : s \in {t \in shorter : Len(t) = n - 1}, x \in S}

NoOut == [value |-> 0, pos |-> 0, reads |-> <<>>]

InitVarint ==
    /\ pc = "start"
    /\ out = NoOut
    /\ \/ \E n \in VarintInputs :
            /\ inp = [kind |-> "int", n |-> n, pos |-> 0]
            /\ wire = <<>>
       \/ \E data \in SeqsUpTo(VarintBytes, MaxBuf) : \E pos \in 0 .. Len(data) :
            /\ inp = [kind |-> "raw", n |-> 0, pos |-> pos]
            /\ wire = data

\* the caller encodes its integer
EncodeVarint ==
    /\ pc = "start"
    /\ inp.kind = "int"
    /\ wire' = encode_varint(inp.n)
    /\ pc' = "encode_varint"
    /\ UNCHANGED <<inp, out>>

\* the caller decodes the buffer (an encoder's output or a raw buffer)
DecodeVarint ==
    /\ \/ pc = "encode_varint"
       \/ pc = "start" /\ inp.kind = "raw"
    /\ out' = DecodeVarintRun(wire, inp.pos)
    /\ pc' = "decode_varint"
    /\ UNCHANGED <<inp, wire>>

NextVarint == EncodeVarint \/ DecodeVarint

SpecVarint == InitVarint /\ [][NextVarint]_vars

\* C1: varint round-trip: for every non-negative integer n,
\* decode_varint(encode_varint(n), 0) = (n, len(encode_varint(n))).
C1_VarintRoundTrip ==
    (pc = "decode_varint" /\ inp.kind = "int") =>
        /\ out.value = inp.n
        /\ out.pos = Len(wire)

\* a multi-byte varint (three groups or more) has been encoded and decoded
C1_Witness ==
    /\ pc = "decode_varint"
    /\ inp.kind = "int"
    /\ inp.n >= 16384
    /\ Len(wire) >= 3
    /\ out.value = inp.n

\* the index of the first byte at or after pos without the 0x80 bit, or
\* Len(data) when every remaining byte has it
FirstStop(data, pos) ==
    LET stops == {i \in pos .. Len(data) - 1 : data[i + 1] < 128}
    IN  IF stops = {} THEN Len(data)
        ELSE CHOOSE i \in stops : \A j \in stops : i <= j

RECURSIVE GroupSum(_, _, _)
\* the 7-bit groups of data[from .. to-1], least significant first
GroupSum(data, from, to) ==
    IF from >= to THEN 0
    ELSE (data[from + 1] % 128) + 128 * GroupSum(data, from + 1, to)

\* C4: decode_varint reads only indices below len(buffer), consumes up to and
\* including the first byte without 0x80 (or to the buffer end), returns
\* next_pos <= len(buffer), and on a truncated varint returns the value
\* accumulated so far.
C4_VarintStaysInBuffer ==
    (pc = "decode_varint" /\ inp.kind = "raw") =>
        LET stop == FirstStop(wire, inp.pos)
            next == IF stop < Len(wire) THEN stop + 1 ELSE Len(wire)
        IN  /\ \A i \in 1 .. Len(out.reads) : out.reads[i] < Len(wire)
            /\ out.reads = [i \in 1 .. next - inp.pos |-> inp.pos + i - 1]
            /\ out.pos = next
            /\ out.pos <= Len(wire)
            /\ out.value = GroupSum(wire, inp.pos, next)

\* a truncated varint: every byte from pos to the end has the continuation bit
C4_Witness ==
    /\ pc = "decode_varint"
    /\ inp.kind = "raw"
    /\ Len(wire) - inp.pos >= 2
    /\ \A i \in inp.pos .. Len(wire) - 1 : wire[i + 1] >= 128
    /\ out.pos = Len(wire)
    /\ out.value > 0

(***************************************************************************)
(* Values of the codec: Python int, bytes, str and None, told apart by k.  *)
(* An int above 2^31 - 1 (only a fixed-width field can carry one here) is  *)
(* kept exactly, as its little-endian base-256 digits (k = "big").         *)
(***************************************************************************)
IntV(n)   == [k |-> "int",   n |-> n, b |-> <<>>]
BytesV(b) == [k |-> "bytes", n |-> 0, b |-> b]
StrV(s)   == [k |-> "str",   n |-> 0, b |-> s]
BigV(b)   == [k |-> "big",   n |-> 0, b |-> b]
NoneV     == [k |-> "none",  n |-> 0, b |-> <<>>]

RECURSIVE StripZeros(_)
\* the digits without the most significant zeros
StripZeros(b) ==
    IF b # <<>> /\ b[Len(b)] = 0 THEN StripZeros(SubSeq(b, 1, Len(b) - 1)) ELSE b

RECURSIVE LittleEndian(_)
LittleEndian(b) == IF b = <<>> THEN 0 ELSE b[1] + 256 * LittleEndian(Tail(b))

\* int.from_bytes(b, "little")
IntFromBytes(b) ==
    LET d == StripZeros(b)
    IN  IF Len(d) < 4 \/ (Len(d) = 4 /\ d[4] < 128) THEN IntV(LittleEndian(d)) ELSE BigV(d)

\* one code point as UTF-8 (surrogates, which str.encode rejects, are not drawn)
Utf8Char(cp) ==
    IF cp < 128 THEN <<cp>>
    ELSE IF cp < 2048 THEN <<192 + (cp \div 64), 128 + (cp % 64)>>
    ELSE IF cp < 65536
         THEN <<224 + (cp \div 4096), 128 + ((cp \div 64) % 64), 128 + (cp % 64)>>
    ELSE <<240 + (cp \div 262144), 128 + ((cp \div 4096) % 64),
           128 + ((cp \div 64) % 64), 128 + (cp % 64)>>

RECURSIVE Utf8Encode(_)
\* value.encode("utf-8")
Utf8Encode(s) == IF s = <<>> THEN <<>> ELSE Utf8Char(s[1]) \o Utf8Encode(Tail(s))

(***************************************************************************)
(* 4.2 Field codec                                                         *)
(***************************************************************************)
\* decode_protobuf_field at or past the end: (None, None, None, pos); the
\* field number and wire type None are -1 here (a decoded one is >= 0)
NoField(pos) == [fn |-> -1, wt |-> -1, value |-> NoneV, pos |-> pos]

\* decode_protobuf_field returning the position it was given for a tag it
\* does not decode (used as a mutant)
DecodeFieldUnknownStaysPut(data, pos) ==
    IF pos >= Len(data) THEN NoField(pos)
    ELSE LET t            == decode_varint(data, pos)
             field_number == t[1] \div 8
             wire_type    == t[1] % 8
         IN  IF wire_type = 0
             THEN [fn |-> field_number, wt |-> wire_type,
                   value |-> IntV(decode_varint(data, t[2])[1]),
                   pos |-> decode_varint(data, t[2])[2]]
             ELSE IF wire_type = 2
             THEN [fn |-> field_number, wt |-> wire_type,
                   value |-> BytesV(Slice(data, decode_varint(data, t[2])[2],
                                 decode_varint(data, t[2])[2]
                                     + decode_varint(data, t[2])[1])),
                   pos |-> decode_varint(data, t[2])[2] + decode_varint(data, t[2])[1]]
             ELSE IF wire_type = 1
             THEN [fn |-> field_number, wt |-> wire_type,
                   value |-> IntFromBytes(Slice(data, t[2], t[2] + 8)), pos |-> t[2] + 8]
             ELSE IF wire_type = 5
             THEN [fn |-> field_number, wt |-> wire_type,
                   value |-> IntFromBytes(Slice(data, t[2], t[2] + 4)), pos |-> t[2] + 4]
             ELSE [fn |-> field_number, wt |-> wire_type, value |-> NoneV, pos |-> pos]

\* decode_protobuf_field(data, pos) -> (field_number, wire_type, value, new_position)
decode_protobuf_field(data, pos) ==
    IF pos >= Len(data) THEN NoField(pos)
    ELSE LET t            == decode_varint(data, pos)
             tag          == t[1]
             p1           == t[2]
             field_number == tag \div 8
             wire_type    == tag % 8
         IN  IF wire_type = 0
             THEN LET v == decode_varint(data, p1)
                  IN  [fn |-> field_number, wt |-> wire_type,
                       value |-> IntV(v[1]), pos |-> v[2]]
             ELSE IF wire_type = 1
             THEN [fn |-> field_number, wt |-> wire_type,
                   value |-> IntFromBytes(Slice(data, p1, p1 + 8)), pos |-> p1 + 8]
             ELSE IF wire_type = 2
             THEN LET l == decode_varint(data, p1)
                      length == l[1]
                      p2 == l[2]
                  IN  [fn |-> field_number, wt |-> wire_type,
                       value |-> BytesV(Slice(data, p2, p2 + length)),
                       pos |-> p2 + length]
             ELSE IF wire_type = 5
             THEN [fn |-> field_number, wt |-> wire_type,
                   value |-> IntFromBytes(Slice(data, p1, p1 + 4)), pos |-> p1 + 4]
             ELSE [fn |-> field_number, wt |-> wire_type, value |-> NoneV, pos |-> p1]

\* encode_protobuf_field measuring a str in characters, not in UTF-8 bytes
\* (used as a mutant)
EncodeFieldCharCount(field_number, wire_type, value) ==
    LET tag == BitOr(field_number * 8, wire_type)
    IN  IF wire_type = 0 THEN encode_varint(tag) \o encode_varint(value.n)
        ELSE IF wire_type = 2 /\ value.k = "bytes"
        THEN encode_varint(tag) \o encode_varint(Len(value.b)) \o value.b
        ELSE IF wire_type = 2 /\ value.k = "str"
        THEN encode_varint(tag) \o encode_varint(Len(value.b)) \o Utf8Encode(value.b)
        ELSE encode_varint(tag)

\* encode_protobuf_field(field_number, wire_type, value) -> bytes
encode_protobuf_field(field_number, wire_type, value) ==
    LET tag == BitOr(field_number * 8, wire_type)
    IN  IF wire_type = 0 THEN encode_varint(tag) \o encode_varint(value.n)
        ELSE IF wire_type = 2 /\ value.k = "bytes"
        THEN encode_varint(tag) \o encode_varint(Len(value.b)) \o value.b
        ELSE IF wire_type = 2 /\ value.k = "str"
        THEN LET value_bytes == Utf8Encode(value.b)
             IN  encode_varint(tag) \o encode_varint(Len(value_bytes)) \o value_bytes
        ELSE encode_varint(tag)

(***************************************************************************)
(* SpecField: one field encoded and decoded                                *)
(***************************************************************************)
\* field numbers 1..MaxFieldNo are drawn (and LargeFieldNos)
MaxFieldNo == 17
\* text values have at most MaxText characters
MaxText == 2
\* a long value has LongLen bytes (its length prefix is a two-byte varint)
LongLen == 130

LargeFieldNos == {180, 2047, 2048, 268435455}

FieldNos == (1 .. MaxFieldNo) \cup LargeFieldNos

FieldInts == {0, 1, 127, 128, 300, 16384, 2147483647}

\* 1-, 2-, 3- and 4-byte code points: A, e-acute, the euro sign, an emoji
TextChars == {65, 233, 8364, 128512}

FieldValueBytes == {0, 8, 200}

FieldValues ==
    {IntV(n) : n \in FieldInts}
        \cup {BytesV(b) : b \in SeqsUpTo(FieldValueBytes, MaxBuf)}
        \cup {BytesV([i \in 1 .. LongLen |-> 7])}
        \cup {StrV(t) : t \in SeqsUpTo(TextChars, MaxText) \ {<<>>}}

InitField ==
    /\ pc = "start"
    /\ out = NoField(0)
    /\ wire = <<>>
    /\ \E fn \in FieldNos : \E v \in FieldValues :
          inp = [kind |-> "field", fn |-> fn, wt |-> IF v.k = "int" THEN 0 ELSE 2,
                 value |-> v]

EncodeField ==
    /\ pc = "start"
    /\ wire' = encode_protobuf_field(inp.fn, inp.wt, inp.value)
    /\ pc' = "encode_protobuf_field"
    /\ UNCHANGED <<inp, out>>

DecodeField ==
    /\ pc = "encode_protobuf_field"
    /\ out' = decode_protobuf_field(wire, 0)
    /\ pc' = "decode_protobuf_field"
    /\ UNCHANGED <<inp, wire>>

NextField == EncodeField \/ DecodeField

SpecField == InitField /\ [][NextField]_vars

\* C3 as stated: field round-trip: for fn >= 1, wt in {0, 2} and value v (an
\* integer, a byte string or a text string),
\* decode_protobuf_field(encode_protobuf_field(fn, wt, v), 0) returns
\* (fn, wt, v, full length of the encoding).
C3_FieldRoundTripAsStated ==
    pc = "decode_protobuf_field" =>
        out = [fn |-> inp.fn, wt |-> inp.wt, value |-> inp.value, pos |-> Len(wire)]

\* C3 amended: the round trip returns (fn, wt, v, full length) for an integer
\* or byte-string v; for a text string v it returns the UTF-8 encoding of v
\* as a byte string, not v.
C3_FieldRoundTrip ==
    pc = "decode_protobuf_field" =>
        out = [fn |-> inp.fn, wt |-> inp.wt,
               value |-> IF inp.value.k = "str"
                         THEN BytesV(Utf8Encode(inp.value.b)) ELSE inp.value,
               pos |-> Len(wire)]

\* a text of two multi-byte characters went through a two-byte tag
C3_Witness ==
    /\ pc = "decode_protobuf_field"
    /\ inp.value.k = "str"
    /\ Len(inp.value.b) = 2
    /\ inp.fn >= 16
    /\ out.value.k = "bytes"
    /\ Len(out.value.b) > 4

(***************************************************************************)
(* base64 (the standard library's b64encode / b64decode, as the decoders   *)
(* and encoders call them).  Text is a sequence of code points.            *)
(***************************************************************************)
\* the alphabet A-Z a-z 0-9 + /
B64Char(i) ==
    IF i < 26 THEN 65 + i
    ELSE IF i < 52 THEN 97 + (i - 26)
    ELSE IF i < 62 THEN 48 + (i - 52)
    ELSE IF i = 62 THEN 43 ELSE 47

\* the 6-bit value of a character, 64 for a character outside the alphabet
B64Val(c) ==
    IF c >= 65 /\ c <= 90 THEN c - 65
    ELSE IF c >= 97 /\ c <= 122 THEN c - 97 + 26
    ELSE IF c >= 48 /\ c <= 57 THEN c - 48 + 52
    ELSE IF c = 43 THEN 62
    ELSE IF c = 47 THEN 63 ELSE 64

\* base64.b64encode(data).decode(): every three bytes give four characters,
\* a short last group is padded with "="
b64encode(data) ==
    LET n == Len(data)
        byte(i) == IF i <= n THEN data[i] ELSE 0
    IN  [k \in 1 .. 4 * ((n + 2) \div 3) |->
            LET g == (k - 1) \div 4
                r == (k - 1) % 4
                b1 == byte((3 * g) + 1)
                b2 == byte((3 * g) + 2)
                b3 == byte((3 * g) + 3)
            IN  IF r = 0 THEN B64Char(b1 \div 4)
                ELSE IF r = 1 THEN B64Char(((b1 % 4) * 16) + (b2 \div 16))
                ELSE IF r = 2
                THEN IF (3 * g) + 2 > n THEN 61
                     ELSE B64Char(((b2 % 16) * 4) + (b3 \div 64))
                ELSE IF (3 * g) + 3 > n THEN 61 ELSE B64Char(b3 % 64)]

\* the state of binascii.a2b_base64 before any character is read
B64Start == [quad_pos |-> 0, leftchar |-> 0, pads |-> 0, bin |-> <<>>, done |-> FALSE]

\* one character of binascii.a2b_base64 in its default, non-strict mode:
\* characters outside the alphabet are skipped; a pad that completes a quad
\* ends the decoding
B64Step(st, c) ==
    LET v == B64Val(c)
    IN  IF st.done THEN st
        ELSE IF c = 61
        THEN IF st.quad_pos >= 2 /\ st.quad_pos + st.pads + 1 >= 4
             THEN [st EXCEPT !.done = TRUE]
             ELSE IF st.quad_pos >= 2 THEN [st EXCEPT !.pads = st.pads + 1] ELSE st
        ELSE IF v = 64 THEN st
        ELSE IF st.quad_pos = 0
        THEN [st EXCEPT !.quad_pos = 1, !.leftchar = v, !.pads = 0]
        ELSE IF st.quad_pos = 1
        THEN [st EXCEPT !.quad_pos = 2, !.leftchar = v % 16, !.pads = 0,
                        !.bin = Append(st.bin, (st.leftchar * 4) + (v \div 16))]
        ELSE IF st.quad_pos = 2
        THEN [st EXCEPT !.quad_pos = 3, !.leftchar = v % 4, !.pads = 0,
                        !.bin = Append(st.bin, (st.leftchar * 16) + (v \div 4))]
        ELSE [st EXCEPT !.quad_pos = 0, !.leftchar = 0, !.pads = 0,
                        !.bin = Append(st.bin, (st.leftchar * 64) + v)]

RECURSIVE B64DecodeLoop(_, _, _, _)
\* the loop of binascii.a2b_base64 over the characters text[lo .. hi], in
\* order, from the state st (the range is halved to keep the evaluation
\* shallow; the characters are still taken left to right)
B64DecodeLoop(text, lo, hi, st) ==
    IF lo > hi THEN st
    ELSE IF lo = hi THEN B64Step(st, text[lo])
    ELSE LET mid == (lo + hi) \div 2
             left == B64DecodeLoop(text, lo, mid, st)
         IN  IF left.done THEN left ELSE B64DecodeLoop(text, mid + 1, hi, left)

\* base64.b64decode(text): the bytes, or ok = FALSE where it raises
\* (binascii.Error for data left in an incomplete quad; ValueError for a
\* str with a non-ASCII character)
b64decode(text) ==
    IF \E i \in 1 .. Len(text) : text[i] > 127
    THEN [ok |-> FALSE, data |-> <<>>]
    ELSE LET st == B64DecodeLoop(text, 1, Len(text), B64Start)
         IN  IF st.done \/ st.quad_pos = 0
             THEN [ok |-> TRUE, data |-> st.bin]
             ELSE [ok |-> FALSE, data |-> <<>>]

(***************************************************************************)
(* 4.4 Domain decoders.  Every decoder returns [raised, val]: raised is    *)
(* TRUE where an exception leaves the function, val is what it returns.    *)
(***************************************************************************)
Returned(val) == [raised |-> FALSE, val |-> val]
Raised == [raised |-> TRUE, val |-> <<>>]

\* a text the decoders build: a table name (v = None), or the prefix s
\* formatted with a value, f"{s}{v}"
Name(s) == [s |-> s, v |-> NoneV]
Fmt(prefix, v) == [s |-> prefix, v |-> v]

WORK_STATUS_STATE_MAP ==
    <<"standby", "sleep", "fault", "charging", "fast_mapping", "cleaning",
      "remote_ctrl", "go_home", "cruising">>

WORK_MODE_MAP ==
    <<"auto", "select_room", "select_zone", "spot", "fast_mapping",
      "global_cruise", "zones_cruise", "point_cruise", "scene", "smart_follow">>

\* TABLE.get(value, "unknown"): without the formatted fallback (used as a
\* mutant)
TableGetNoFallback(table, value, prefix) ==
    IF value.k = "int" /\ value.n < Len(table)
    THEN Name(table[value.n + 1]) ELSE Name("unknown")

\* TABLE.get(value, f"{prefix}{value}") for a table keyed 0..len-1
TableGet(table, value, prefix) ==
    IF value.k = "int" /\ value.n < Len(table)
    THEN Name(table[value.n + 1]) ELSE Fmt(prefix, value)

\* framing detection that strips the first byte without comparing it with the
\* length (used as a mutant)
StripFirstByteAlways(data) == Slice(data, 1, Len(data))

\* decode_work_status / decode_error_code framing detection, for len(data) > 0:
\* if data[0] == len(data) - 1: data = data[1:]
StripLengthByte(data) ==
    IF data[1] = Len(data) - 1 THEN Slice(data, 1, Len(data)) ELSE data

\* the dict decode_work_status starts from
WorkStatusResult ==
    [state |-> Name("unknown"), mode |-> Name("unknown"),
     charging |-> "None", cleaning |-> "None", go_home |-> "None"]

\* the dict of the early return and of the except branch
WorkStatusUnknown == [state |-> Name("unknown"), mode |-> Name("unknown")]

\* one iteration of the work-status loop (lines 121-142)
WorkStatusField(f, result) ==
    IF f.fn = 1 /\ f.wt = 2
    THEN IF Len(f.value.b) >= 2
         THEN LET mode == decode_protobuf_field(f.value.b, 0)
              IN  IF mode.value.k # "none"
                  THEN [result EXCEPT !.mode = TableGet(WORK_MODE_MAP, mode.value, "mode_")]
                  ELSE result
         ELSE result
    ELSE IF f.fn = 2 /\ f.wt = 0
    THEN [result EXCEPT !.state = TableGet(WORK_STATUS_STATE_MAP, f.value, "state_")]
    ELSE IF f.fn = 3 /\ f.wt = 2 THEN [result EXCEPT !.charging = "True"]
    ELSE IF f.fn = 6 /\ f.wt = 2 THEN [result EXCEPT !.cleaning = "True"]
    ELSE IF f.fn = 8 /\ f.wt = 2 THEN [result EXCEPT !.go_home = "True"]
    ELSE result

RECURSIVE WorkStatusWalk(_, _, _)
\* the field walk of decode_work_status (lines 114-144)
WorkStatusWalk(data, pos, result) ==
    IF pos >= Len(data) THEN result
    ELSE LET f == decode_protobuf_field(data, pos)
         IN  IF f.fn = -1 THEN result
             ELSE WorkStatusWalk(data, f.pos, WorkStatusField(f, result))

\* decode_work_status(base64_value); every exception is caught (line 146)
decode_work_status(base64_value) ==
    LET d == b64decode(base64_value)
    IN  IF ~d.ok THEN Returned(WorkStatusUnknown)
        ELSE IF Len(d.data) = 0 THEN Returned(WorkStatusUnknown)
        ELSE Returned(WorkStatusWalk(StripLengthByte(d.data), 0, WorkStatusResult))

RECURSIVE PackedVarints(_, _)
\* the packed-repeated loop (lines 188-191): the varints of value, in order
PackedVarints(value, inner_pos) ==
    IF inner_pos >= Len(value) THEN <<>>
    ELSE LET v == decode_varint(value, inner_pos)
         IN  <<v[1]>> \o PackedVarints(value, v[2])

\* the values one field adds to a repeated uint32 (lines 184-191)
RepeatedValues(f) ==
    IF f.wt = 0 THEN <<f.value.n>>
    ELSE IF f.wt = 2 THEN PackedVarints(f.value.b, 0)
    ELSE <<>>

RECURSIVE ErrorCodeWalk(_, _, _)
\* the field walk of decode_error_code (lines 176-200)
ErrorCodeWalk(data, pos, result) ==
    IF pos >= Len(data) THEN result
    ELSE LET f == decode_protobuf_field(data, pos)
         IN  IF f.fn = -1 THEN result
             ELSE ErrorCodeWalk(data, f.pos,
                    IF f.fn = 2
                    THEN [result EXCEPT !.errors = @ \o RepeatedValues(f)]
                    ELSE IF f.fn = 3
                    THEN [result EXCEPT !.warnings = @ \o RepeatedValues(f)]
                    ELSE result)

ErrorCodeNone == [errors |-> <<>>, warnings |-> <<>>, error_text |-> Name("none")]

\* the error text taken from the warnings before the errors (used as a
\* mutant)
ErrorTextWarningFirst(result) ==
    [result EXCEPT !.error_text =
        IF result.warnings # <<>> THEN Fmt("warning_", IntV(result.warnings[1]))
        ELSE IF result.errors # <<>> THEN Fmt("error_", IntV(result.errors[1]))
        ELSE Name("none")]

\* lines 202-208
ErrorText(result) ==
    [result EXCEPT !.error_text =
        IF result.errors # <<>> THEN Fmt("error_", IntV(result.errors[1]))
        ELSE IF result.warnings # <<>> THEN Fmt("warning_", IntV(result.warnings[1]))
        ELSE Name("none")]

\* decode_error_code(base64_value); every exception is caught (line 212)
decode_error_code(base64_value) ==
    LET d == b64decode(base64_value)
    IN  IF ~d.ok THEN Returned(ErrorCodeNone)
        ELSE IF Len(d.data) = 0 THEN Returned(ErrorCodeNone)
        ELSE Returned(ErrorText(ErrorCodeWalk(StripLengthByte(d.data), 0, ErrorCodeNone)))

\* the speed names, as text
Quiet    == <<113, 117, 105, 101, 116>>
Standard == <<115, 116, 97, 110, 100, 97, 114, 100>>
Turbo    == <<116, 117, 114, 98, 111>>
MaxSpeed == <<109, 97, 120>>

\* speed_map.get(value, "standard")
SpeedGet(value) ==
    IF value.k = "int" /\ value.n = 0 THEN Quiet
    ELSE IF value.k = "int" /\ value.n = 2 THEN Turbo
    ELSE IF value.k = "int" /\ value.n = 3 THEN MaxSpeed
    ELSE Standard

\* str.isdigit() of one character: the ASCII digits, the superscripts
\* two, three and one, the Arabic-Indic digits (the digits drawn here)
IsDigit(c) ==
    \/ c >= 48 /\ c <= 57
    \/ c \in {178, 179, 185}
    \/ c >= 1632 /\ c <= 1641

\* int() accepts a decimal digit only: a superscript digit is a ValueError
IsDecimal(c) ==
    \/ c >= 48 /\ c <= 57
    \/ c >= 1632 /\ c <= 1641

DecimalValue(c) == IF c >= 1632 THEN c - 1632 ELSE c - 48

\* str.lower(), on the characters drawn here (A-Z are the only cased ones)
Lower(text) == [i \in 1 .. Len(text) |-> IF text[i] >= 65 /\ text[i] <= 90
                                         THEN text[i] + 32 ELSE text[i]]

\* decode_clean_speed framing detection (lines 240-241)
StripSpeedLengthByte(data) ==
    IF data[1] = Len(data) - 1 /\ Len(data) > 1 THEN Slice(data, 1, Len(data)) ELSE data

RECURSIVE CleanSpeedWalk(_, _)
\* lines 243-252: the first field 1 of wire type 0, else the first byte
CleanSpeedWalk(data, pos) ==
    IF pos >= Len(data) THEN SpeedGet(IntV(data[1]))
    ELSE LET f == decode_protobuf_field(data, pos)
         IN  IF f.fn = 1 /\ f.wt = 0 THEN SpeedGet(f.value)
             ELSE CleanSpeedWalk(data, f.pos)

\* decode_clean_speed(value) for an int or a str; int(value) at line 232 is
\* outside the try block
decode_clean_speed(value) ==
    IF value.k = "int" THEN Returned(SpeedGet(value))
    ELSE IF value.k = "str"
    THEN LET text == value.b
         IN  IF Len(text) = 1 /\ IsDigit(text[1])
             THEN IF IsDecimal(text[1])
                  THEN Returned(SpeedGet(IntV(DecimalValue(text[1]))))
                  ELSE Raised
             ELSE IF (\E i \in 1 .. Len(text) : text[i] = 61) \/ Len(text) > 4
             THEN LET d == b64decode(text)
                  IN  IF d.ok /\ Len(d.data) >= 1
                      THEN Returned(CleanSpeedWalk(StripSpeedLengthByte(d.data), 0))
                      ELSE Returned(Lower(text))
             ELSE Returned(Lower(text))
    ELSE Returned(Standard)

\* framing detection of decode_dnd (lines 527-529), and of decode_scene_list,
\* decode_cleaning_statistics and decode_consumables:
\* length, pos_after = decode_varint(data, 0)
\* if 0 < length == len(data) - pos_after: data = data[pos_after:]
StripLengthPrefix(data) ==
    LET v         == decode_varint(data, 0)
        length    == v[1]
        pos_after == v[2]
    IN  IF 0 < length /\ length = Len(data) - pos_after
        THEN Slice(data, pos_after, Len(data)) ELSE data

RECURSIVE Utf8DecodeLoop(_, _, _)
\* bytes.decode("utf-8"), strict: ok = FALSE is UnicodeDecodeError
Utf8DecodeLoop(b, i, acc) ==
    IF i > Len(b) THEN [ok |-> TRUE, s |-> acc]
    ELSE LET c == b[i]
             Cont(j) == j <= Len(b) /\ b[j] >= 128 /\ b[j] <= 191
             bad == [ok |-> FALSE, s |-> <<>>]
         IN  IF c < 128 THEN Utf8DecodeLoop(b, i + 1, Append(acc, c))
             ELSE IF c >= 194 /\ c <= 223
             THEN IF Cont(i + 1)
                  THEN Utf8DecodeLoop(b, i + 2,
                                      Append(acc, (c - 192) * 64 + (b[i + 1] - 128)))
                  ELSE bad
             ELSE IF c >= 224 /\ c <= 239
             THEN IF Cont(i + 1) /\ Cont(i + 2)
                  THEN LET cp == (c - 224) * 4096 + (b[i + 1] - 128) * 64 + (b[i + 2] - 128)
                       IN  IF cp >= 2048 /\ ~(cp >= 55296 /\ cp <= 57343)
                           THEN Utf8DecodeLoop(b, i + 3, Append(acc, cp))
                           ELSE bad
                  ELSE bad
             ELSE IF c >= 240 /\ c <= 244
             THEN IF Cont(i + 1) /\ Cont(i + 2) /\ Cont(i + 3)
                  THEN LET cp == (c - 240) * 262144 + (b[i + 1] - 128) * 4096
                                   + (b[i + 2] - 128) * 64 + (b[i + 3] - 128)
                       IN  IF cp >= 65536 /\ cp <= 1114111
                           THEN Utf8DecodeLoop(b, i + 4, Append(acc, cp))
                           ELSE bad
                  ELSE bad
             ELSE bad

Utf8Decode(b) == Utf8DecodeLoop(b, 1, <<>>)

\* one iteration of the loop of _decode_single_scene (lines 467-478)
SceneField(f, sc) ==
    IF f.fn = 1 /\ f.wt = 2
    THEN LET inner == decode_protobuf_field(f.value.b, 0)
         IN  IF inner.fn = 1 /\ inner.wt = 0
             THEN [sc EXCEPT !.scene_id = inner.value] ELSE sc
    ELSE IF f.fn = 3 /\ f.wt = 0
    THEN [sc EXCEPT !.enabled = (f.value.n # 0)]
    ELSE IF f.fn = 4 /\ f.wt = 2
    THEN LET t == Utf8Decode(f.value.b)
         IN  [sc EXCEPT !.name = IF t.ok THEN t.s ELSE <<>>]
    ELSE sc

RECURSIVE SceneWalk(_, _, _)
SceneWalk(data, pos, sc) ==
    IF pos >= Len(data) THEN sc
    ELSE LET f == decode_protobuf_field(data, pos)
         IN  IF f.fn = -1 THEN sc ELSE SceneWalk(data, f.pos, SceneField(f, sc))

\* _decode_single_scene with "if scene_id and name": a scene whose id is 0
\* is dropped (used as a mutant)
DecodeSingleSceneIdNotZero(data) ==
    LET sc == SceneWalk(data, 0, [scene_id |-> NoneV, name |-> <<>>, enabled |-> TRUE])
    IN  IF sc.scene_id.k # "none" /\ sc.scene_id # IntV(0) /\ sc.name # <<>>
        THEN <<sc>> ELSE <<>>

\* _decode_single_scene(data): the scene as a one-element list, or the empty
\* list where it returns None
decode_single_scene(data) ==
    LET sc == SceneWalk(data, 0, [scene_id |-> NoneV, name |-> <<>>, enabled |-> TRUE])
    IN  IF sc.scene_id.k # "none" /\ sc.name # <<>> THEN <<sc>> ELSE <<>>

RECURSIVE SceneListWalk(_, _, _)
\* the field walk of decode_scene_list (lines 440-450)
SceneListWalk(data, pos, scenes) ==
    IF pos >= Len(data) THEN scenes
    ELSE LET f == decode_protobuf_field(data, pos)
         IN  IF f.fn = -1 THEN scenes
             ELSE SceneListWalk(data, f.pos,
                    IF f.fn = 4 /\ f.wt = 2
                    THEN scenes \o decode_single_scene(f.value.b) ELSE scenes)

\* decode_scene_list(base64_value) for a str; every exception is caught
decode_scene_list(base64_value) ==
    IF base64_value = <<>> THEN Returned(<<>>)
    ELSE LET d == b64decode(base64_value)
         IN  IF ~d.ok THEN Returned(<<>>)
             ELSE IF Len(d.data) < 2 THEN Returned(<<>>)
             ELSE Returned(SceneListWalk(StripLengthPrefix(d.data), 0, <<>>))

\* vv != 0 for a decoded value: only the int 0 equals 0
NotZero(v) == ~(v.k = "int" /\ v.n = 0)

\* one iteration of the schedule loop of decode_dnd (lines 543-554)
DndScheduleField(f, result) ==
    IF f.wt = 2 /\ f.fn \in {1, 2, 3}
    THEN LET inner == decode_protobuf_field(f.value.b, 0)
         IN  IF inner.fn = 1
             THEN IF f.fn = 1 THEN [result EXCEPT !.enabled = NotZero(inner.value)]
                  ELSE IF f.fn = 2 THEN [result EXCEPT !.start_hour = inner.value]
                  ELSE [result EXCEPT !.end_hour = inner.value]
             ELSE result
    ELSE result

RECURSIVE DndScheduleWalk(_, _, _)
DndScheduleWalk(value, inner_pos, result) ==
    IF inner_pos >= Len(value) THEN result
    ELSE LET f == decode_protobuf_field(value, inner_pos)
         IN  IF f.fn = -1 THEN result
             ELSE DndScheduleWalk(value, f.pos, DndScheduleField(f, result))

RECURSIVE DndWalk(_, _, _)
\* the field walk of decode_dnd (lines 531-556)
DndWalk(data, pos, result) ==
    IF pos >= Len(data) THEN result
    ELSE LET f == decode_protobuf_field(data, pos)
         IN  IF f.fn = -1 THEN result
             ELSE DndWalk(data, f.pos,
                    IF f.fn = 2 /\ f.wt = 2
                    THEN DndScheduleWalk(f.value.b, 0, result) ELSE result)

DndDefault == [enabled |-> FALSE, start_hour |-> IntV(22), end_hour |-> IntV(8)]

\* decode_dnd(base64_value) for a str; every exception is caught
decode_dnd(base64_value) ==
    IF base64_value = <<>> THEN Returned(DndDefault)
    ELSE LET d == b64decode(base64_value)
         IN  IF ~d.ok THEN Returned(DndDefault)
             ELSE IF Len(d.data) < 2 THEN Returned(DndDefault)
             ELSE Returned(DndWalk(StripLengthPrefix(d.data), 0, DndDefault))

RECURSIVE StatsInnerWalk(_, _, _, _)
\* the nested loops of decode_cleaning_statistics (lines 624-642); outer is
\* the top-level field number, 1 or 2
StatsInnerWalk(value, inner_pos, outer, result) ==
    IF inner_pos >= Len(value) THEN result
    ELSE LET f == decode_protobuf_field(value, inner_pos)
         IN  IF f.fn = -1 THEN result
             ELSE StatsInnerWalk(value, f.pos, outer,
                    IF f.wt # 0 THEN result
                    ELSE IF outer = 1 /\ f.fn = 1 THEN [result EXCEPT !.total_cleans = f.value]
                    ELSE IF outer = 2 /\ f.fn = 1 THEN [result EXCEPT !.total_area = f.value]
                    ELSE IF outer = 2 /\ f.fn = 2 THEN [result EXCEPT !.total_time_min = f.value]
                    ELSE IF outer = 2 /\ f.fn = 3 THEN [result EXCEPT !.total_sessions = f.value]
                    ELSE result)

RECURSIVE StatsWalk(_, _, _)
\* the field walk of decode_cleaning_statistics (lines 618-644)
StatsWalk(data, pos, result) ==
    IF pos >= Len(data) THEN result
    ELSE LET f == decode_protobuf_field(data, pos)
         IN  IF f.fn = -1 THEN result
             ELSE StatsWalk(data, f.pos,
                    IF f.wt = 2 /\ f.fn \in {1, 2}
                    THEN StatsInnerWalk(f.value.b, 0, f.fn, result) ELSE result)

StatsDefault ==
    [total_cleans |-> IntV(0), total_area |-> IntV(0),
     total_time_min |-> IntV(0), total_sessions |-> IntV(0)]

\* decode_cleaning_statistics(base64_value) for a str; every exception is caught
decode_cleaning_statistics(base64_value) ==
    IF base64_value = <<>> THEN Returned(StatsDefault)
    ELSE LET d == b64decode(base64_value)
         IN  IF ~d.ok THEN Returned(StatsDefault)
             ELSE IF Len(d.data) < 2 THEN Returned(StatsDefault)
             ELSE Returned(StatsWalk(StripLengthPrefix(d.data), 0, StatsDefault))

\* field_map of decode_consumables (lines 665-673), keyed 1..7
ConsumableNames ==
    <<"rolling_brush", "side_brush", "filter", "mop_pad", "other_brush",
      "sensor", "runtime_hours">>

\* dict.fromkeys(field_map.values(), 0)
ConsumablesDefault == [name \in {ConsumableNames[i] : i \in 1 .. 7} |-> IntV(0)]

RECURSIVE ConsumablesInnerWalk(_, _, _)
\* lines 693-705
ConsumablesInnerWalk(value, inner_pos, result) ==
    IF inner_pos >= Len(value) THEN result
    ELSE LET f == decode_protobuf_field(value, inner_pos)
         IN  IF f.fn = -1 THEN result
             ELSE ConsumablesInnerWalk(value, f.pos,
                    IF f.fn >= 1 /\ f.fn <= 7
                    THEN IF f.wt = 2
                         THEN LET inner == decode_protobuf_field(f.value.b, 0)
                              IN  IF inner.fn = 1
                                  THEN [result EXCEPT ![ConsumableNames[f.fn]] = inner.value]
                                  ELSE result
                         ELSE IF f.wt = 0
                         THEN [result EXCEPT ![ConsumableNames[f.fn]] = f.value]
                         ELSE result
                    ELSE result)

RECURSIVE ConsumablesWalk(_, _, _)
\* the field walk of decode_consumables (lines 686-708); the break of line
\* 706 ends it after the first field 1 of wire type 2
ConsumablesWalk(data, pos, result) ==
    IF pos >= Len(data) THEN result
    ELSE LET f == decode_protobuf_field(data, pos)
         IN  IF f.fn = -1 THEN result
             ELSE IF f.fn = 1 /\ f.wt = 2
             THEN ConsumablesInnerWalk(f.value.b, 0, result)
             ELSE ConsumablesWalk(data, f.pos, result)

\* decode_consumables(base64_value) for a str; every exception is caught
decode_consumables(base64_value) ==
    IF base64_value = <<>> THEN Returned(ConsumablesDefault)
    ELSE LET d == b64decode(base64_value)
         IN  IF ~d.ok THEN Returned(ConsumablesDefault)
             ELSE IF Len(d.data) < 2 THEN Returned(ConsumablesDefault)
             ELSE Returned(ConsumablesWalk(StripLengthPrefix(d.data), 0, ConsumablesDefault))

\* a key the dict of decode_clean_param does not hold
AbsentV == [k |-> "absent", n |-> 0, b |-> <<>>]

\* the empty dict of line 735
CleanParamEmpty ==
    [clean_type |-> AbsentV, clean_extent |-> AbsentV,
     mop_level |-> AbsentV, clean_times |-> AbsentV]

\* framing detection as section 4.3 words it (the reference C7 compares
\* with): the buffer is framed only when the leading varint equals the
\* number of bytes after it
CleanParamMessageExact(data) ==
    LET v == decode_varint(data, 0)
    IN  IF v[1] = Len(data) - v[2] THEN Slice(data, v[2], Len(data)) ELSE data

\* lines 737-741 of decode_clean_param:
\* if pos_after_varint + length <= len(data): message = data[pos_after_varint :
\* pos_after_varint + length] else: message = data
CleanParamMessage(data) ==
    LET v                == decode_varint(data, 0)
        length           == v[1]
        pos_after_varint == v[2]
    IN  IF pos_after_varint + length <= Len(data)
        THEN Slice(data, pos_after_varint, pos_after_varint + length)
        ELSE data

\* one iteration of the inner loop of decode_clean_param (lines 754-765)
CleanParamField(f, result) ==
    IF f.fn = 1 /\ f.wt = 0 THEN [result EXCEPT !.clean_type = f.value]
    ELSE IF f.fn = 3 /\ f.wt = 2
    THEN LET inner == decode_protobuf_field(f.value.b, 0)
         IN  IF inner.fn = 1 THEN [result EXCEPT !.clean_extent = inner.value] ELSE result
    ELSE IF f.fn = 4 /\ f.wt = 2
    THEN LET inner == decode_protobuf_field(f.value.b, 0)
         IN  IF inner.fn = 1 THEN [result EXCEPT !.mop_level = inner.value] ELSE result
    ELSE IF f.fn = 7 /\ f.wt = 0 THEN [result EXCEPT !.clean_times = f.value]
    ELSE result

RECURSIVE CleanParamInnerWalk(_, _, _)
CleanParamInnerWalk(value, inner_pos, result) ==
    IF inner_pos >= Len(value) THEN result
    ELSE LET f == decode_protobuf_field(value, inner_pos)
         IN  IF f.fn = -1 THEN result
             ELSE CleanParamInnerWalk(value, f.pos, CleanParamField(f, result))

RECURSIVE CleanParamWalk(_, _, _)
\* the field walk of decode_clean_param (lines 742-766); the break of line
\* 766 ends it after the first field 1 of wire type 2
CleanParamWalk(message, pos, result) ==
    IF pos >= Len(message) THEN result
    ELSE LET f == decode_protobuf_field(message, pos)
         IN  IF f.fn = -1 THEN result
             ELSE IF f.fn = 1 /\ f.wt = 2
             THEN CleanParamInnerWalk(f.value.b, 0, result)
             ELSE CleanParamWalk(message, f.pos, result)

\* "return result if result else None": none = TRUE is the None
CleanParamReturn(result) ==
    [none |-> (result = CleanParamEmpty), dict |-> result]

\* decode_clean_param(base64_value) for a str; every exception is caught
decode_clean_param(base64_value) ==
    IF base64_value = <<>> THEN Returned(CleanParamReturn(CleanParamEmpty))
    ELSE LET d == b64decode(base64_value)
         IN  IF ~d.ok THEN Returned(CleanParamReturn(CleanParamEmpty))
             ELSE IF Len(d.data) < 2 THEN Returned(CleanParamReturn(CleanParamEmpty))
             ELSE Returned(CleanParamReturn(
                      CleanParamWalk(CleanParamMessage(d.data), 0, CleanParamEmpty)))

(***************************************************************************)
(* 4.5 Domain encoders                                                      *)
(***************************************************************************)
\* the DND message with the start hour and the end hour in each other's
\* field (used as a mutant)
EncodeDndSwapped(enabled, start_hour, end_hour) ==
    LET enabled_msg == encode_protobuf_field(1, 0, IntV(IF enabled THEN 1 ELSE 0))
        start_msg   == encode_protobuf_field(1, 0, IntV(start_hour))
        end_msg     == encode_protobuf_field(1, 0, IntV(end_hour))
        schedule    == encode_protobuf_field(1, 2, BytesV(enabled_msg))
                           \o encode_protobuf_field(3, 2, BytesV(start_msg))
                           \o encode_protobuf_field(2, 2, BytesV(end_msg))
        message     == encode_protobuf_field(1, 2, BytesV(<<>>))
                           \o encode_protobuf_field(2, 2, BytesV(schedule))
    IN  b64encode(encode_varint(Len(message)) \o message)

\* encode_dnd(enabled, start_hour, end_hour) -> str
encode_dnd(enabled, start_hour, end_hour) ==
    LET enabled_msg == encode_protobuf_field(1, 0, IntV(IF enabled THEN 1 ELSE 0))
        start_msg   == encode_protobuf_field(1, 0, IntV(start_hour))
        end_msg     == encode_protobuf_field(1, 0, IntV(end_hour))
        schedule    == encode_protobuf_field(1, 2, BytesV(enabled_msg))
                           \o encode_protobuf_field(2, 2, BytesV(start_msg))
                           \o encode_protobuf_field(3, 2, BytesV(end_msg))
        message     == encode_protobuf_field(1, 2, BytesV(<<>>))
                           \o encode_protobuf_field(2, 2, BytesV(schedule))
        result      == encode_varint(Len(message)) \o message
    IN  b64encode(result)

\* encode_clean_param(clean_type, mop_level, clean_extent, clean_times) -> str;
\* an argument that is None is NoneV
encode_clean_param(clean_type, mop_level, clean_extent, clean_times) ==
    LET clean_type_msg   == encode_protobuf_field(1, 0, clean_type)
        clean_extent_msg == encode_protobuf_field(1, 0, clean_extent)
        mop_mode_msg     == encode_protobuf_field(1, 0, mop_level)
        clean_param ==
            (IF clean_type # NoneV
             THEN encode_protobuf_field(1, 2, BytesV(clean_type_msg)) ELSE <<>>)
            \o (IF clean_extent # NoneV
                THEN encode_protobuf_field(3, 2, BytesV(clean_extent_msg)) ELSE <<>>)
            \o (IF mop_level # NoneV
                THEN encode_protobuf_field(4, 2, BytesV(mop_mode_msg)) ELSE <<>>)
            \o encode_protobuf_field(7, 0, clean_times)
        message == encode_protobuf_field(1, 2, BytesV(clean_param))
        result  == encode_varint(Len(message)) \o message
    IN  b64encode(result)

\* a Python dict, as its set of <<key, value>> items; params of
\* encode_control_command is such a dict or None
NoParams == [none |-> TRUE, items |-> {}]
Params(items) == [none |-> FALSE, items |-> items]

\* params.get(key, default)
DictGet(items, key, default) ==
    IF \E it \in items : it[1] = key
    THEN (CHOOSE it \in items : it[1] = key)[2]
    ELSE default

\* the truth value of params: None and the empty dict are false
Truthy(params) == ~params.none /\ params.items # {}

\* encode_control_command(method, params=None) -> str
encode_control_command(method, params) ==
    LET auto_clean_msg ==
            encode_protobuf_field(1, 0, IntV(DictGet(params.items, "clean_times", 1)))
        message == encode_protobuf_field(1, 0, IntV(method))
                       \o (IF method = 0 /\ Truthy(params)
                           THEN encode_protobuf_field(3, 2, BytesV(auto_clean_msg))
                           ELSE <<>>)
        result  == encode_varint(Len(message)) \o message
    IN  b64encode(result)

CONTROL_START_SELECT_ROOMS_CLEAN == 1
CONTROL_START_SCENE_CLEAN == 24

RECURSIVE RoomsLoopOrderFromZero(_, _)
\* the loop over enumerate(room_ids) writing the 0-based index as the order
\* (used as a mutant)
RoomsLoopOrderFromZero(room_ids, order) ==
    IF order >= Len(room_ids) THEN <<>>
    ELSE LET room_id  == room_ids[order + 1]
             room_msg == encode_protobuf_field(1, 0, IntV(room_id))
                             \o encode_protobuf_field(2, 0, IntV(order))
         IN  encode_protobuf_field(1, 2, BytesV(room_msg))
                 \o RoomsLoopOrderFromZero(room_ids, order + 1)

RECURSIVE RoomsLoop(_, _)
\* for order, room_id in enumerate(room_ids): the Room entries appended to
\* select_rooms from the 0-based index order on
RoomsLoop(room_ids, order) ==
    IF order >= Len(room_ids) THEN <<>>
    ELSE LET room_id  == room_ids[order + 1]
             room_msg == encode_protobuf_field(1, 0, IntV(room_id))
                             \o encode_protobuf_field(2, 0, IntV(order + 1))
         IN  encode_protobuf_field(1, 2, BytesV(room_msg))
                 \o RoomsLoop(room_ids, order + 1)

\* encode_room_clean_command(room_ids, clean_times=1) -> str
encode_room_clean_command(room_ids, clean_times) ==
    LET select_rooms == RoomsLoop(room_ids, 0)
                            \o encode_protobuf_field(2, 0, IntV(clean_times))
        message == encode_protobuf_field(1, 0, IntV(CONTROL_START_SELECT_ROOMS_CLEAN))
                       \o encode_protobuf_field(4, 2, BytesV(select_rooms))
        result  == encode_varint(Len(message)) \o message
    IN  b64encode(result)

\* encode_scene_clean_command without the length prefix (used as a mutant)
EncodeSceneCleanUnframed(scene_id) ==
    LET scene_clean_msg == encode_protobuf_field(1, 0, IntV(scene_id))
        message == encode_protobuf_field(1, 0, IntV(CONTROL_START_SCENE_CLEAN))
                       \o encode_protobuf_field(14, 2, BytesV(scene_clean_msg))
    IN  b64encode(message)

\* encode_scene_clean_command(scene_id) -> str
encode_scene_clean_command(scene_id) ==
    LET scene_clean_msg == encode_protobuf_field(1, 0, IntV(scene_id))
        message == encode_protobuf_field(1, 0, IntV(CONTROL_START_SCENE_CLEAN))
                       \o encode_protobuf_field(14, 2, BytesV(scene_clean_msg))
        result  == encode_varint(Len(message)) \o message
    IN  b64encode(result)

(***************************************************************************)
(* 4.6 Map parser (camera.py)                                              *)
(***************************************************************************)
\* decompress_lz4(data, original_size): lz4 is how the import and the call of
\* lz4.block.decompress end: "ImportError" (the package is not installed),
\* "Exception" (the block is rejected), or "Output" (the block decodes to
\* lz4.len bytes lz4.fill); an output that does not fit in original_size
\* bytes makes the call raise, a shorter one is returned as it is
decompress_lz4(data, original_size, lz4) ==
    IF lz4.outcome = "ImportError" THEN <<>>
    ELSE IF lz4.outcome = "Exception" \/ lz4.len > original_size THEN <<>>
    ELSE [i \in 1 .. lz4.len |-> lz4.fill]

\* F applied to the value of v: v is evaluated once, the way a call or an
\* assignment of the program evaluates its right-hand side once
Bind(v, F(_)) == CHOOSE r \in {F(x) : x \in {v}} : TRUE

\* the pixel code at index idx of the flat list parse_map_pixels builds:
\* four codes per byte, two bits each, low bits first
PixelCode(data, idx) ==
    LET byte == data[(idx \div 4) + 1]
        k    == idx % 4
    IN  IF k = 0 THEN byte % 4
        ELSE IF k = 1 THEN (byte \div 4) % 4
        ELSE IF k = 2 THEN (byte \div 16) % 4
        ELSE (byte \div 64) % 4

\* parse_map_pixels taking the four codes of a byte from the high bits down
\* (used as a mutant)
ParseMapPixelsHighFirst(data, width, height) ==
    CHOOSE map_2d \in
        {[y \in 1 .. h |->
            [x \in 1 .. w |->
                LET idx == ((y - 1) * w) + (x - 1)
                IN  IF idx < 4 * Len(d)
                    THEN PixelCode(d, (4 * (idx \div 4)) + (3 - (idx % 4)))
                    ELSE 0]] :
         d \in {data}, w \in {width}, h \in {height}} : TRUE

\* parse_map_pixels(data, width, height): height rows of width codes, 0 where
\* the index is beyond the pixel list (d, w, h are the arguments, bound once
\* at the call)
parse_map_pixels(data, width, height) ==
    CHOOSE map_2d \in
        {[y \in 1 .. h |->
            [x \in 1 .. w |->
                LET idx == ((y - 1) * w) + (x - 1)
                IN  IF idx < 4 * Len(d) THEN PixelCode(d, idx) ELSE 0]] :
         d \in {data}, w \in {width}, h \in {height}} : TRUE

\* the state of _collect: its position pos in msg, and what the nonlocal
\* lists varints and blobs hold
NoneCollected == [pos |-> 0, varints |-> <<>>, blobs |-> <<>>, calls |-> <<>>]

\* "Strip optional length prefix" of _collect (lines 277-280)
CollectMessage(msg) ==
    IF Len(msg) >= 2
    THEN LET v         == decode_varint(msg, 0)
             ln        == v[1]
             pos_after == v[2]
         IN  IF 0 < ln /\ ln <= Len(msg) - pos_after
             THEN Slice(msg, pos_after, pos_after + ln) ELSE msg
    ELSE msg

\* the states of _collect
Collected == [pos : Nat, varints : Seq(Nat), blobs : Seq(Seq(Nat)),
              calls : Seq(Nat \X Nat)]

RECURSIVE collect(_, _)
\* _collect(msg), from what has been gathered: the loop of lines 281-295
\* over the stripped message from position 0; a value of more than 50 bytes
\* is walked by _collect itself (no call of decode_varint or
\* decode_protobuf_field raises, so the except branch of line 292 is not
\* taken), any other length-delimited value is appended to blobs; calls
\* lists the recursive calls made, each as <<len(msg) of the caller,
\* len(value) handed to the callee>>
collect(msg, got) ==
    LET message == CollectMessage(msg)
        Walk[at \in Collected] ==
            IF at.pos >= Len(message) THEN at
            ELSE LET f == decode_protobuf_field(message, at.pos)
                 IN  IF f.fn = -1 THEN at
                     ELSE IF f.wt = 0
                     THEN Walk[[at EXCEPT !.pos = f.pos,
                                          !.varints = Append(at.varints, f.value.n)]]
                     ELSE IF f.wt = 2
                     THEN IF Len(f.value.b) > 50
                          THEN Walk[[collect(f.value.b,
                                         [at EXCEPT !.calls = Append(at.calls,
                                              <<Len(msg), Len(f.value.b)>>)])
                                       EXCEPT !.pos = f.pos]]
                          ELSE Walk[[at EXCEPT !.pos = f.pos,
                                               !.blobs = Append(at.blobs, f.value.b)]]
                     ELSE Walk[[at EXCEPT !.pos = f.pos]]
    IN  Walk[[got EXCEPT !.pos = 0]]

\* max(blobs, key=len): the first of the longest blobs
LargestBlob(blobs) ==
    LET longest == CHOOSE n \in {Len(blobs[i]) : i \in 1 .. Len(blobs)} :
                       \A i \in 1 .. Len(blobs) : Len(blobs[i]) <= n
        first   == CHOOSE i \in 1 .. Len(blobs) :
                       /\ Len(blobs[i]) = longest
                       /\ \A j \in 1 .. i - 1 : Len(blobs[j]) < longest
    IN  blobs[first]

RECURSIVE DecompressedAnyLength(_, _, _, _)
\* the loop of lines 308-315 without the length test of line 312 (used as a
\* mutant)
DecompressedAnyLength(pixel_bytes, sizes, i, lz4) ==
    IF i > Len(sizes) THEN pixel_bytes
    ELSE LET expected_bytes == (sizes[i] + 3) \div 4
             decompressed   ==
                 IF 0 < expected_bytes /\ expected_bytes <= 1024 * 1024
                      /\ expected_bytes >= Len(pixel_bytes) \div 2
                 THEN decompress_lz4(pixel_bytes, expected_bytes, lz4) ELSE <<>>
         IN  IF decompressed # <<>>
             THEN decompressed
             ELSE DecompressedAnyLength(pixel_bytes, sizes, i + 1, lz4)

RECURSIVE Decompressed(_, _, _, _)
\* the loop of lines 308-315 over the candidate sizes from the i-th on: the
\* first decompression result of exactly the expected length, else the blob
Decompressed(pixel_bytes, sizes, i, lz4) ==
    IF i > Len(sizes) THEN pixel_bytes
    ELSE LET expected_bytes == (sizes[i] + 3) \div 4
             decompressed   ==
                 IF 0 < expected_bytes /\ expected_bytes <= 1024 * 1024
                      /\ expected_bytes >= Len(pixel_bytes) \div 2
                 THEN decompress_lz4(pixel_bytes, expected_bytes, lz4) ELSE <<>>
         IN  IF decompressed # <<>> /\ Len(decompressed) = expected_bytes
             THEN decompressed
             ELSE Decompressed(pixel_bytes, sizes, i + 1, lz4)

\* math.isqrt(n)
isqrt(n) == CHOOSE r \in 0 .. n : r * r <= n /\ (r + 1) * (r + 1) > n

\* int(math.isqrt(num_pixels)) or 256
SquareSide(num_pixels) == IF isqrt(num_pixels) = 0 THEN 256 ELSE isqrt(num_pixels)

\* the greatest member of a non-empty set of integers
Largest(S) == CHOOSE v \in S : \A w \in S : w <= v

\* lines 318-329: candidates is the varints in 8..2048 sorted descending;
\* its first two entries are the width and the height to try
Dimensions(varints, num_pixels) ==
    LET at    == {i \in 1 .. Len(varints) : 8 <= varints[i] /\ varints[i] <= 2048}
        first == Largest({varints[i] : i \in at})
        rest  == at \ {CHOOSE i \in at : varints[i] = first}
        second == Largest({varints[i] : i \in rest})
    IN  IF Cardinality(at) >= 2
        THEN IF first * second > num_pixels * 2 \/ first * second < num_pixels \div 2
             THEN [width |-> SquareSide(num_pixels), height |-> SquareSide(num_pixels)]
             ELSE [width |-> first, height |-> second]
        ELSE IF Cardinality(at) = 1
        THEN [width |-> first, height |-> first]
        ELSE [width |-> SquareSide(num_pixels), height |-> SquareSide(num_pixels)]

\* the None of the map parser
NoMap == [none |-> TRUE, width |-> 0, height |-> 0, pixels |-> <<>>]

\* lines 297-337 of _parse_map_protobuf, from what _collect gathered
MapPayload(got, lz4) ==
    IF got.blobs = <<>> THEN NoMap
    ELSE Bind(LargestBlob(got.blobs), LAMBDA blob :
           Bind(Decompressed(blob,
                    <<4 * Len(blob), 512 * 512, 256 * 256, 1024 * 1024>>, 1, lz4),
                LAMBDA pixel_bytes :
           Bind(Dimensions(got.varints, 4 * Len(pixel_bytes)), LAMBDA inferred :
           Bind(IF inferred.width <= 0 \/ inferred.height <= 0
                THEN [width |-> 256, height |-> 256] ELSE inferred, LAMBDA dim :
                [none |-> FALSE, width |-> dim.width, height |-> dim.height,
                 pixels |-> parse_map_pixels(pixel_bytes, dim.width, dim.height)]))))

\* _parse_map_protobuf(data); every exception is caught (line 339)
parse_map_protobuf(data, lz4) ==
    Bind(collect(data, NoneCollected), LAMBDA got : MapPayload(got, lz4))

\* _parse_map_response(data) for a str; every exception is caught (line 256)
parse_map_response(data, lz4) ==
    IF data = <<>> THEN Returned(NoMap)
    ELSE Bind(b64decode(data), LAMBDA d :
            IF d.ok THEN Returned(parse_map_protobuf(d.data, lz4))
            ELSE Returned(NoMap))

(***************************************************************************)
(* SpecDecoders: the domain decoders on device values (framed and unframed  *)
(* messages, damaged buffers, arbitrary text, integers) and on what          *)
(* encode_dnd and encode_clean_param produce                                 *)
(***************************************************************************)
\* a message body has 1..MaxFields fields
MaxFields == 3
\* a damaged buffer has at most MaxRaw bytes
MaxRaw == 3
\* an arbitrary text has at most MaxChars characters
MaxChars == 3

\* a varint field and a length-delimited field, as bytes
Num(fn, n)     == encode_protobuf_field(fn, 0, IntV(n))
Msg(fn, inner) == encode_protobuf_field(fn, 2, BytesV(inner))

\* the fields the bodies are made of
StateField      == Num(2, 5)
SpeedField      == Num(1, 2)
ModeField       == Msg(1, Num(1, 8))
WarnField       == Msg(3, <<1, 2, 3, 4, 5>>)
CleaningField   == Msg(6, <<0>>)
ScheduleField   == Msg(2, Msg(1, Num(1, 1)) \o Msg(2, Num(1, 23)) \o Msg(3, Num(1, 6)))
SceneField4     == Msg(4, Msg(1, Num(1, 7)) \o Msg(4, <<75>>) \o Num(3, 0))
CleanParamField1 == Msg(1, Num(1, 1) \o Msg(3, Num(1, 1)) \o Msg(4, Num(1, 1)))
\* a tag of wire type 3 (field 1), which decode_protobuf_field does not decode
GroupField      == <<11>>

FieldPool ==
    {StateField, SpeedField, ModeField, WarnField, CleaningField,
     ScheduleField, SceneField4, CleanParamField1, GroupField}

RECURSIVE Bodies(_)
\* the concatenations of 1..n fields of the pool
Bodies(n) ==
    IF n = 0 THEN {}
    ELSE FieldPool \cup {b \o f : b \in Bodies(n - 1), f \in FieldPool}

\* a body of 128 bytes: its length prefix is the two-byte varint 80 01
LongBody ==
    StateField \o encode_protobuf_field(15, 2,
                     BytesV(<<0, 0>> \o Msg(4, [i \in 1 .. 120 |-> 0])))

\* bytes of damaged buffers: tags of every wire type, lengths, a
\* continuation byte
RawBytes == {0, 2, 8, 9, 10, 11, 13, 128}

\* characters of arbitrary text: A = 2 ! and the superscript two
TextAlphabet == {65, 61, 50, 33, 178}

Hours == 0 .. 23

\* an optional enum argument: None or a small integer
OptionalEnum == {NoneV} \cup {IntV(n) : n \in 0 .. 2}

WireKinds == {"framed", "unframed", "raw", "text"}

\* the base64 text of a device message, with its length prefix when framed
Wire(body, framed) ==
    b64encode(IF framed THEN encode_varint(Len(body)) \o body ELSE body)

\* an absent field of a device message
Absent == -1

\* State and Mode codes of a WorkStatus message: absent, inside and outside
\* the tables
StateCodes == {Absent, 0, 5, 8, 9, 200}
ModeCodes  == {Absent, 0, 8, 9, 10, 200}

\* a WorkStatus message: Mode (field 1, a message holding field 1), State
\* (field 2), and the messages Charging (3), Cleaning (6) and GoHome (8)
WorkStatusMessage(state, mode, charging, cleaning, go_home) ==
    (IF mode = Absent THEN <<>> ELSE Msg(1, Num(1, mode)))
        \o (IF state = Absent THEN <<>> ELSE Num(2, state))
        \o (IF charging THEN Msg(3, <<>>) ELSE <<>>)
        \o (IF cleaning THEN Msg(6, <<0>>) ELSE <<>>)
        \o (IF go_home THEN Msg(8, <<>>) ELSE <<>>)

\* the first field of a Mode message: its number, its wire type and the
\* value it carries (wire type 0 is what the WorkStatus structure has; 2 is
\* a one-byte string, 5 a fixed32, 3 a group tag followed by one byte)
ModeFieldNos   == {1, 2}
ModeWireTypes  == {0, 2, 3, 5}
ModeValues     == {8, 200}
ModeFirstField(fn, wt, code) ==
    IF wt = 0 THEN Num(fn, code)
    ELSE IF wt = 2 THEN Msg(fn, <<code>>)
    ELSE IF wt = 5 THEN <<(fn * 8) + 5, code, 0, 0, 0>>
    ELSE <<(fn * 8) + wt, code>>

\* a WorkStatus message whose Mode message starts with that field, followed
\* by State = 5
WorkModeMessage(fn, wt, code) == Msg(1, ModeFirstField(fn, wt, code)) \o Num(2, 5)

\* an ErrorCode message has at most MaxErrorFields error and warn fields
MaxErrorFields == 2
\* error and warning codes: 0, a small one and a two-byte varint
ErrorValues == {0, 2, 200}
\* the runs of a packed field
PackedRuns == {<<>>, <<3>>, <<2, 3>>, <<200, 0>>}

\* the error (2) and warn (3) fields: one varint, or a packed run of values
ErrorFields ==
    {[fn |-> fn, packed |-> FALSE, values |-> <<v>>] :
        fn \in {2, 3}, v \in ErrorValues}
    \cup {[fn |-> fn, packed |-> TRUE, values |-> values] :
        fn \in {2, 3}, values \in PackedRuns}

RECURSIVE PackedRun(_)
\* the varints of a packed field, one after the other
PackedRun(values) ==
    IF values = <<>> THEN <<>>
    ELSE encode_varint(values[1]) \o PackedRun(Tail(values))

RECURSIVE ErrorCodeMessage(_)
\* an ErrorCode message of the given fields
ErrorCodeMessage(fields) ==
    IF fields = <<>> THEN <<>>
    ELSE LET f == fields[1]
         IN  (IF f.packed THEN Msg(f.fn, PackedRun(f.values))
              ELSE Num(f.fn, f.values[1]))
                 \o ErrorCodeMessage(Tail(fields))

\* a scene list has at most MaxScenes Scene entries
MaxScenes == 2
\* scene ids: absent, 0 and 42
SceneIds == {Absent, 0, 42}
\* the enabled field of a Scene: absent, 0 or 1
SceneEnabled == {Absent, 0, 1}
\* the name field of a Scene: absent, empty, "K", "e" with an acute accent
\* (two bytes of UTF-8), and the byte FF, which is not UTF-8
SceneNames ==
    {[given |-> FALSE, bytes |-> <<>>, text |-> <<>>],
     [given |-> TRUE, bytes |-> <<>>, text |-> <<>>],
     [given |-> TRUE, bytes |-> Utf8Encode(<<75>>), text |-> <<75>>],
     [given |-> TRUE, bytes |-> Utf8Encode(<<233>>), text |-> <<233>>],
     [given |-> TRUE, bytes |-> <<255>>, text |-> <<>>]}

SceneEntries == [id : SceneIds, enabled : SceneEnabled, name : SceneNames]

\* a Scene message: field 1 a message holding the id in field 1, field 3
\* enabled, field 4 the name
SceneMessage(scene) ==
    (IF scene.id = Absent THEN <<>> ELSE Msg(1, Num(1, scene.id)))
        \o (IF scene.enabled = Absent THEN <<>> ELSE Num(3, scene.enabled))
        \o (IF scene.name.given THEN Msg(4, scene.name.bytes) ELSE <<>>)

RECURSIVE SceneEntriesBytes(_)
\* the Scene entries as repeated field 4
SceneEntriesBytes(scenes) ==
    IF scenes = <<>> THEN <<>>
    ELSE Msg(4, SceneMessage(scenes[1])) \o SceneEntriesBytes(Tail(scenes))

\* a SceneResponse message: with or without the varint fields 1 and 2 in
\* front of the entries
SceneListMessage(header, scenes) ==
    (IF header THEN Num(1, 1) \o Num(2, 0) ELSE <<>>) \o SceneEntriesBytes(scenes)

\* speed codes of a message: the table, just outside it, and a two-byte
\* varint
SpeedCodes == {0, 1, 2, 3, 4, 200}

\* a clean-speed message: field 1 the speed, with or without a varint field 2
\* in front of it
CleanSpeedMessage(code, lead) ==
    (IF lead THEN Num(2, 7) ELSE <<>>) \o Num(1, code)

\* usage hours: 0, a small number and a two-byte varint
UsageHours == {0, 5, 300}

\* how a consumable arrives: not at all, as a bare varint, as a message
\* holding the hours in field 1, as a message whose field 1 is
\* length-delimited, or as a message holding field 2 only
ConsumableEntries ==
    {[form |-> "absent", hours |-> 0], [form |-> "bytes", hours |-> 0],
     [form |-> "other", hours |-> 0]}
    \cup {[form |-> form, hours |-> hours] :
             form \in {"varint", "message"}, hours \in UsageHours}

\* the field numbered fn of the consumables message
ConsumableField(fn, entry) ==
    IF entry.form = "absent" THEN <<>>
    ELSE IF entry.form = "varint" THEN Num(fn, entry.hours)
    ELSE IF entry.form = "message" THEN Msg(fn, Num(1, entry.hours))
    ELSE IF entry.form = "bytes" THEN Msg(fn, Msg(1, <<7>>))
    ELSE Msg(fn, Num(2, 9))

\* the outer message: field 1 holds the rolling brush (1) and the runtime
\* hours (7); a second field 1, when there is one, holds other values
ConsumablesMessage(rolling_brush, runtime_hours, second) ==
    Msg(1, ConsumableField(1, rolling_brush) \o ConsumableField(7, runtime_hours))
        \o (IF second THEN Msg(1, Num(1, 99) \o Num(2, 98)) ELSE <<>>)

\* the hours of a DND message: absent, the ends of 0..23, and beyond
DndHours == {Absent, 0, 23, 24, 200}
\* the enabled value of a DND message: absent, 0 or 1
DndEnabled == {Absent, 0, 1}

\* one component of the schedule: field fn, a message holding the value in
\* field 1
DndComponent(fn, value) ==
    IF value = Absent THEN <<>> ELSE Msg(fn, Num(1, value))

\* a DND message: field 2 the schedule, holding enabled (1), the start hour
\* (2) and the end hour (3)
DndMessage(enabled, start_hour, end_hour) ==
    Msg(2, DndComponent(1, enabled) \o DndComponent(2, start_hour)
               \o DndComponent(3, end_hour))

InitDecoders ==
    /\ pc = "start"
    /\ out = Returned(<<>>)
    /\ \/ \E body \in Bodies(MaxFields) \cup {LongBody} :
            \/ /\ inp = [kind |-> "framed", body |-> body]
               /\ wire = b64encode(encode_varint(Len(body)) \o body)
            \/ /\ inp = [kind |-> "unframed", body |-> body]
               /\ wire = b64encode(body)
       \/ \E data \in SeqsUpTo(RawBytes, MaxRaw) :
            /\ inp = [kind |-> "raw", body |-> data]
            /\ wire = b64encode(data)
       \/ \E text \in SeqsUpTo(TextAlphabet, MaxChars) :
            /\ inp = [kind |-> "text", body |-> <<>>]
            /\ wire = text
       \/ \E n \in 0 .. 4 :
            /\ inp = [kind |-> "int", n |-> n]
            /\ wire = <<>>
       \/ \E enabled \in BOOLEAN : \E start_hour \in Hours : \E end_hour \in Hours :
            /\ inp = [kind |-> "dnd", enabled |-> enabled,
                      start_hour |-> start_hour, end_hour |-> end_hour]
            /\ wire = <<>>
       \/ \E clean_type \in OptionalEnum : \E mop_level \in OptionalEnum :
          \E clean_extent \in OptionalEnum : \E clean_times \in 1 .. 3 :
            /\ inp = [kind |-> "clean_param", clean_type |-> clean_type,
                      mop_level |-> mop_level, clean_extent |-> clean_extent,
                      clean_times |-> IntV(clean_times)]
            /\ wire = <<>>
       \/ \E enabled \in DndEnabled : \E start_hour \in DndHours :
          \E end_hour \in DndHours : \E framed \in BOOLEAN :
            LET body == DndMessage(enabled, start_hour, end_hour)
            IN  /\ inp = [kind |-> "dnd_message", body |-> body, framed |-> framed,
                          enabled |-> enabled, start_hour |-> start_hour,
                          end_hour |-> end_hour]
                /\ wire = Wire(body, framed)
       \/ \E rolling_brush \in ConsumableEntries :
          \E runtime_hours \in ConsumableEntries :
          \E second \in BOOLEAN : \E framed \in BOOLEAN :
            LET body == ConsumablesMessage(rolling_brush, runtime_hours, second)
            IN  /\ inp = [kind |-> "consumables", body |-> body, framed |-> framed,
                          rolling_brush |-> rolling_brush,
                          runtime_hours |-> runtime_hours]
                /\ wire = Wire(body, framed)
       \/ \E code \in 0 .. 9 :
            /\ inp = [kind |-> "clean_speed", form |-> "digit", code |-> code]
            /\ wire = <<48 + code>>
       \/ \E code \in SpeedCodes : \E lead \in BOOLEAN : \E framed \in BOOLEAN :
            LET body == CleanSpeedMessage(code, lead)
            IN  /\ inp = [kind |-> "clean_speed", form |-> "message", code |-> code,
                          body |-> body, framed |-> framed]
                /\ wire = Wire(body, framed)
       \/ \E scenes \in SeqsUpTo(SceneEntries, MaxScenes) :
          \E header \in BOOLEAN : \E framed \in BOOLEAN :
            LET body == SceneListMessage(header, scenes)
            IN  /\ inp = [kind |-> "scene_list", body |-> body, framed |-> framed,
                          scenes |-> scenes]
                /\ wire = Wire(body, framed)
       \/ \E fields \in SeqsUpTo(ErrorFields, MaxErrorFields) :
          \E framed \in BOOLEAN :
            LET body == ErrorCodeMessage(fields)
            IN  /\ inp = [kind |-> "error_code", body |-> body, framed |-> framed,
                          fields |-> fields]
                /\ wire = Wire(body, framed)
       \/ \E state \in StateCodes : \E mode \in ModeCodes :
          \E charging \in BOOLEAN : \E cleaning \in BOOLEAN :
          \E go_home \in BOOLEAN : \E framed \in BOOLEAN :
            LET body == WorkStatusMessage(state, mode, charging, cleaning, go_home)
            IN  /\ inp = [kind |-> "work_status", body |-> body, framed |-> framed,
                          state |-> state, mode |-> mode, charging |-> charging,
                          cleaning |-> cleaning, go_home |-> go_home]
                /\ wire = Wire(body, framed)
       \/ \E fn \in ModeFieldNos : \E wt \in ModeWireTypes :
          \E code \in ModeValues : \E framed \in BOOLEAN :
            LET body == WorkModeMessage(fn, wt, code)
            IN  /\ inp = [kind |-> "work_mode", body |-> body, framed |-> framed,
                          fn |-> fn, wt |-> wt, code |-> code]
                /\ wire = Wire(body, framed)

EncodeDnd ==
    /\ pc = "start"
    /\ inp.kind = "dnd"
    /\ wire' = encode_dnd(inp.enabled, inp.start_hour, inp.end_hour)
    /\ pc' = "encode_dnd"
    /\ UNCHANGED <<inp, out>>

EncodeCleanParam ==
    /\ pc = "start"
    /\ inp.kind = "clean_param"
    /\ wire' = encode_clean_param(inp.clean_type, inp.mop_level,
                                  inp.clean_extent, inp.clean_times)
    /\ pc' = "encode_clean_param"
    /\ UNCHANGED <<inp, out>>

\* a text value is there for a decoder: a device value, or an encoder's output
Ready ==
    \/ pc = "start" /\ inp.kind \in WireKinds
    \/ pc \in {"encode_dnd", "encode_clean_param"}

\* a device value of the decoder's own message type is there
Routed(kind) == pc = "start" /\ inp.kind = kind

DecodeWorkStatus ==
    /\ Ready \/ Routed("work_status") \/ Routed("work_mode")
    /\ out' = decode_work_status(wire)
    /\ pc' = "decode_work_status"
    /\ UNCHANGED <<inp, wire>>

DecodeErrorCode ==
    /\ Ready \/ Routed("error_code")
    /\ out' = decode_error_code(wire)
    /\ pc' = "decode_error_code"
    /\ UNCHANGED <<inp, wire>>

\* decode_clean_speed takes an int as well as a str
DecodeCleanSpeed ==
    /\ Ready \/ Routed("int") \/ Routed("clean_speed")
    /\ out' = decode_clean_speed(IF inp.kind = "int" THEN IntV(inp.n) ELSE StrV(wire))
    /\ pc' = "decode_clean_speed"
    /\ UNCHANGED <<inp, wire>>

DecodeSceneList ==
    /\ Ready \/ Routed("scene_list")
    /\ out' = decode_scene_list(wire)
    /\ pc' = "decode_scene_list"
    /\ UNCHANGED <<inp, wire>>

DecodeDnd ==
    /\ Ready \/ Routed("dnd_message")
    /\ out' = decode_dnd(wire)
    /\ pc' = "decode_dnd"
    /\ UNCHANGED <<inp, wire>>

DecodeCleaningStatistics ==
    /\ Ready
    /\ out' = decode_cleaning_statistics(wire)
    /\ pc' = "decode_cleaning_statistics"
    /\ UNCHANGED <<inp, wire>>

DecodeConsumables ==
    /\ Ready \/ Routed("consumables")
    /\ out' = decode_consumables(wire)
    /\ pc' = "decode_consumables"
    /\ UNCHANGED <<inp, wire>>

DecodeCleanParam ==
    /\ Ready
    /\ out' = decode_clean_param(wire)
    /\ pc' = "decode_clean_param"
    /\ UNCHANGED <<inp, wire>>

NextDecoders ==
    \/ EncodeDnd
    \/ EncodeCleanParam
    \/ DecodeWorkStatus
    \/ DecodeErrorCode
    \/ DecodeCleanSpeed
    \/ DecodeSceneList
    \/ DecodeDnd
    \/ DecodeCleaningStatistics
    \/ DecodeConsumables
    \/ DecodeCleanParam

SpecDecoders == InitDecoders /\ [][NextDecoders]_vars

\* C2: for every input string, each domain decoder returns a value (the
\* decoded record or the documented default) and never raises to the caller.
C2_DecodersNeverRaise == out.raised = FALSE

\* the bytes a decoder is given (the base64 text decoded)
Given == b64decode(wire).data

\* the decoders that look at the first byte to detect framing
FirstByteDecoders == {"decode_work_status", "decode_error_code"}

\* the decoders that compare the leading varint with what follows it
VarintDecoders ==
    {"decode_scene_list", "decode_dnd", "decode_cleaning_statistics",
     "decode_consumables"}

\* the framing-detection step of the decoder called name
Detect(name, data) ==
    IF name \in FirstByteDecoders
    THEN IF data = <<>> THEN data ELSE StripLengthByte(data)
    ELSE IF name \in VarintDecoders THEN StripLengthPrefix(data)
    ELSE CleanParamMessage(data)

\* the field walk of the decoder called name over data, and what it returns
WalkOf(name, data) ==
    IF name = "decode_work_status"
    THEN Returned(WorkStatusWalk(data, 0, WorkStatusResult))
    ELSE IF name = "decode_error_code"
    THEN Returned(ErrorText(ErrorCodeWalk(data, 0, ErrorCodeNone)))
    ELSE IF name = "decode_scene_list"
    THEN Returned(SceneListWalk(data, 0, <<>>))
    ELSE IF name = "decode_dnd"
    THEN Returned(DndWalk(data, 0, DndDefault))
    ELSE IF name = "decode_cleaning_statistics"
    THEN Returned(StatsWalk(data, 0, StatsDefault))
    ELSE IF name = "decode_consumables"
    THEN Returned(ConsumablesWalk(data, 0, ConsumablesDefault))
    ELSE Returned(CleanParamReturn(CleanParamWalk(data, 0, CleanParamEmpty)))

\* the body passes the framing test of the decoder called name by itself:
\* its first byte (its leading varint) is the number of bytes after it; for
\* decode_clean_param, the leading varint is at most that number
SelfFramed(name, body) ==
    LET v == decode_varint(body, 0)
    IN  IF name \in FirstByteDecoders THEN body[1] = Len(body) - 1
        ELSE IF name \in VarintDecoders THEN 0 < v[1] /\ v[1] = Len(body) - v[2]
        ELSE v[2] + v[1] <= Len(body)

\* the decoders with a framing-detection step before a field walk
FramingDecoders == FirstByteDecoders \cup VarintDecoders \cup {"decode_clean_param"}

C6_FramedDecodesAsBody ==
    (inp.kind = "framed" /\ pc \in FirstByteDecoders) => out = WalkOf(pc, inp.body)

\* C7: decode_clean_param treats its buffer as framed only when the leading
\* varint equals the number of bytes that follow it; in every other case it
\* field-walks the whole buffer from position 0.
C7_CleanParamFramedOnlyWhenExact ==
    (pc = "decode_clean_param" /\ inp.kind \in {"framed", "unframed", "raw"}
                               /\ Len(Given) >= 2) =>
        out = WalkOf(pc, CleanParamMessageExact(Given))

\* the dict entry of an argument of encode_clean_param: no key for None
Entry(arg) == IF arg = NoneV THEN AbsentV ELSE arg

\* C8: decode_clean_param(encode_clean_param(clean_type, mop_level,
\* clean_extent, clean_times)) contains exactly the fields that were given,
\* with the same values, and no field that was absent.
C8_CleanParamRoundTrip ==
    (pc = "decode_clean_param" /\ inp.kind = "clean_param") =>
        out = Returned([none |-> FALSE,
                        dict |-> [clean_type   |-> Entry(inp.clean_type),
                                  clean_extent |-> Entry(inp.clean_extent),
                                  mop_level    |-> Entry(inp.mop_level),
                                  clean_times  |-> inp.clean_times]])

\* C9: for every enabled and every start_hour and end_hour in 0..23,
\* decode_dnd(encode_dnd(enabled, start_hour, end_hour)) equals
\* {enabled, start_hour, end_hour}.
C9_DndRoundTrip ==
    (pc = "decode_dnd" /\ inp.kind = "dnd") =>
        out = Returned([enabled    |-> inp.enabled,
                        start_hour |-> IntV(inp.start_hour),
                        end_hour   |-> IntV(inp.end_hour)])

\* decode_dnd(encode_dnd(true, 23, 6)) has been computed
C9_Witness ==
    /\ pc = "decode_dnd"
    /\ inp.kind = "dnd"
    /\ inp.enabled /\ inp.start_hour = 23 /\ inp.end_hour = 6
    /\ out.val.enabled /\ out.val.start_hour = IntV(23)

RECURSIVE UpToUnknown(_, _)
\* the bytes of data before the first top-level tag, from pos on, whose wire
\* type is not 0, 1, 2 or 5 (all of data when there is none)
UpToUnknown(data, pos) ==
    IF pos >= Len(data) THEN data
    ELSE LET f == decode_protobuf_field(data, pos)
         IN  IF f.wt \notin {0, 1, 2, 5} THEN Slice(data, 0, pos)
             ELSE UpToUnknown(data, f.pos)

\* C14: when decode_protobuf_field meets a tag whose wire type is not 0, 1,
\* 2 or 5, the field walk of that buffer stops: no later field of the
\* buffer is decoded or contributes to the decoder's result.
C14_UnknownWireTypeStopsWalk ==
    (pc \in FramingDecoders /\ inp.kind \in {"framed", "unframed"}) =>
        out = WalkOf(pc, UpToUnknown(Detect(pc, Given), 0))

\* the fields of a device value are the top-level fields of the message the
\* decoder called name walks: the message came framed, or it does not pass
\* the framing test by itself (an unframed message that does, such as the
\* 11-byte WorkStatus 0a 02 08 00 1a 00 32 01 00 42 00, is a framed message
\* of other fields)
Walked(name) ==
    inp.framed \/ inp.body = <<>> \/ ~SelfFramed(name, inp.body)

\* the flag called name of the work status is True
Flag(name) == name \in DOMAIN out.val /\ out.val[name] = "True"

\* C15: decode_work_status maps field 2 (varint s) to the state-table name
\* of s, or to "state_{s}" outside the 9-entry table, and the varint m in
\* field 1 of the Mode message (field 1) to the mode-table name of m, or to
\* "mode_{m}" outside the 10-entry table; charging, cleaning and go_home are
\* true exactly when fields 3, 6 and 8 are present.
C15_WorkStatusFields ==
    (pc = "decode_work_status" /\ inp.kind = "work_status"
        /\ Walked("decode_work_status")) =>
        /\ out.raised = FALSE
        /\ Len(WORK_STATUS_STATE_MAP) = 9
        /\ Len(WORK_MODE_MAP) = 10
        /\ out.val.state =
             IF inp.state = Absent THEN Name("unknown")
             ELSE IF inp.state \in 0 .. 8
             THEN Name(WORK_STATUS_STATE_MAP[inp.state + 1])
             ELSE Fmt("state_", IntV(inp.state))
        /\ out.val.mode =
             IF inp.mode = Absent THEN Name("unknown")
             ELSE IF inp.mode \in 0 .. 9 THEN Name(WORK_MODE_MAP[inp.mode + 1])
             ELSE Fmt("mode_", IntV(inp.mode))
        /\ Flag("charging") <=> inp.charging
        /\ Flag("cleaning") <=> inp.cleaning
        /\ Flag("go_home") <=> inp.go_home

\* State 5 and Mode 8 were decoded to "cleaning" and "scene", with GoHome
\* present and Charging absent
C15_Witness ==
    /\ pc = "decode_work_status"
    /\ inp.kind = "work_status"
    /\ inp.state = 5 /\ inp.mode = 8 /\ inp.go_home /\ ~inp.charging
    /\ out.val.state = Name("cleaning")
    /\ out.val.mode = Name("scene")
    /\ Flag("go_home") /\ ~Flag("charging")

RECURSIVE ValuesOf(_, _)
\* the values of the fields numbered fn, in wire order
ValuesOf(fields, fn) ==
    IF fields = <<>> THEN <<>>
    ELSE (IF fields[1].fn = fn THEN fields[1].values ELSE <<>>)
             \o ValuesOf(Tail(fields), fn)

\* C16: decode_error_code appends to errors every value of field 2 and to
\* warnings every value of field 3, in wire order, whether the field is a
\* single varint or a packed run; error_text is "error_{first error}" when
\* errors is non-empty, otherwise "warning_{first warning}" when warnings is
\* non-empty, otherwise "none".
C16_ErrorCodeFields ==
    (pc = "decode_error_code" /\ inp.kind = "error_code"
        /\ Walked("decode_error_code")) =>
        LET errors   == ValuesOf(inp.fields, 2)
            warnings == ValuesOf(inp.fields, 3)
        IN  /\ out.raised = FALSE
            /\ out.val.errors = errors
            /\ out.val.warnings = warnings
            /\ out.val.error_text =
                 IF errors # <<>> THEN Fmt("error_", IntV(errors[1]))
                 ELSE IF warnings # <<>> THEN Fmt("warning_", IntV(warnings[1]))
                 ELSE Name("none")

\* field 3 as the packed varints 2, 3 after an empty packed field 2: the
\* warnings are 2, 3 and the text is warning_2
C16_Witness ==
    /\ pc = "decode_error_code"
    /\ inp.kind = "error_code"
    /\ inp.fields = <<[fn |-> 2, packed |-> TRUE, values |-> <<>>],
                      [fn |-> 3, packed |-> TRUE, values |-> <<2, 3>>]>>
    /\ out.val.errors = <<>>
    /\ out.val.warnings = <<2, 3>>
    /\ out.val.error_text = Fmt("warning_", IntV(2))

RECURSIVE ScenesKept(_)
\* the entries that carry an id and a non-empty valid name, in order
ScenesKept(scenes) ==
    IF scenes = <<>> THEN <<>>
    ELSE (IF scenes[1].id # Absent /\ scenes[1].name.text # <<>>
          THEN <<[scene_id |-> IntV(scenes[1].id),
                  name     |-> scenes[1].name.text,
                  enabled  |-> scenes[1].enabled # 0]>>
          ELSE <<>>) \o ScenesKept(Tail(scenes))

\* C17: decode_scene_list returns, in the order received, exactly the
\* field-4 Scene entries that carry a scene id (id 0 included) and a
\* non-empty valid UTF-8 name; every other entry is dropped; enabled is true
\* unless field 3 is present with value 0.
C17_SceneList ==
    (pc = "decode_scene_list" /\ inp.kind = "scene_list"
        /\ Walked("decode_scene_list")) =>
        out = Returned(ScenesKept(inp.scenes))

\* of a scene 0 named with two bytes of UTF-8 and disabled, and a scene 42
\* whose name is not UTF-8, the first one was returned
C17_Witness ==
    /\ pc = "decode_scene_list"
    /\ inp.kind = "scene_list"
    /\ Len(inp.scenes) = 2
    /\ inp.scenes[1].id = 0 /\ inp.scenes[1].name.bytes = <<195, 169>>
    /\ inp.scenes[1].enabled = 0
    /\ inp.scenes[2].id = 42 /\ inp.scenes[2].name.bytes = <<255>>
    /\ out.val = <<[scene_id |-> IntV(0), name |-> <<233>>, enabled |-> FALSE]>>

\* the speed-table name of a code, "standard" outside the table
SpeedName(code) ==
    IF code = 0 THEN Quiet
    ELSE IF code = 2 THEN Turbo
    ELSE IF code = 3 THEN MaxSpeed
    ELSE Standard

\* C18: decode_clean_speed returns the speed-table name (0 quiet, 1
\* standard, 2 turbo, 3 max) for an integer or one-digit string in 0..3 and
\* for every base64 string that encodes a framed or unframed message whose
\* field 1 is a varint in 0..3, whatever the length of that base64 string;
\* an out-of-range code yields "standard".
C18_CleanSpeedNames ==
    /\ (pc = "decode_clean_speed" /\ inp.kind = "int") =>
           out = Returned(SpeedName(inp.n))
    /\ (pc = "decode_clean_speed" /\ inp.kind = "clean_speed") =>
           out = Returned(SpeedName(inp.code))

\* C18 for the integers, the one-digit strings and the base64 strings that
\* have a padding character or more than four characters
CleanSpeedNamesOfDecodedText ==
    /\ (pc = "decode_clean_speed" /\ inp.kind = "int") =>
           out = Returned(SpeedName(inp.n))
    /\ (pc = "decode_clean_speed" /\ inp.kind = "clean_speed"
           /\ (Len(wire) # 4 \/ (\E i \in 1 .. 4 : wire[i] = 61))) =>
           out = Returned(SpeedName(inp.code))

\* the hours a consumable is updated to: those of a bare varint or of a
\* message whose field 1 is a varint, 0 otherwise
HoursOf(entry) ==
    IF entry.form \in {"varint", "message"} THEN IntV(entry.hours) ELSE IntV(0)

\* the result holds exactly the 7 names, each with a non-negative integer
ConsumablesWellFormed ==
    /\ out.raised = FALSE
    /\ DOMAIN out.val = {ConsumableNames[i] : i \in 1 .. 7}
    /\ Cardinality(DOMAIN out.val) = 7
    /\ \A name \in DOMAIN out.val :
         out.val[name].k \in {"int", "big"} /\ out.val[name].n >= 0

\* C19: for every input, decode_consumables returns exactly the 7 fixed
\* consumable names, each mapped to a non-negative integer (0 when not
\* updated); a name is updated only from a bare varint or from a nested
\* message whose field 1 is a varint, and only inside the first top-level
\* field-1 message.
C19_Consumables ==
    /\ pc = "decode_consumables" => ConsumablesWellFormed
    /\ (pc = "decode_consumables" /\ inp.kind = "consumables"
           /\ Walked("decode_consumables")) =>
           out.val = [ConsumablesDefault EXCEPT
                         !["rolling_brush"] = HoursOf(inp.rolling_brush),
                         !["runtime_hours"] = HoursOf(inp.runtime_hours)]

\* C19 on the messages whose nested field 1 is a varint wherever there is one
ConsumablesOfVarints ==
    (pc = "decode_consumables" /\ inp.kind = "consumables"
        /\ Walked("decode_consumables")
        /\ inp.rolling_brush.form # "bytes" /\ inp.runtime_hours.form # "bytes") =>
        /\ ConsumablesWellFormed
        /\ out.val = [ConsumablesDefault EXCEPT
                         !["rolling_brush"] = HoursOf(inp.rolling_brush),
                         !["runtime_hours"] = HoursOf(inp.runtime_hours)]

\* the result is a well-formed DndSchedule
DndWellFormed ==
    /\ out.raised = FALSE
    /\ out.val.enabled \in BOOLEAN
    /\ out.val.start_hour.k = "int" /\ out.val.start_hour.n \in 0 .. 23
    /\ out.val.end_hour.k = "int" /\ out.val.end_hour.n \in 0 .. 23

\* the components that are not in the message have their default
DndDefaultsKept ==
    /\ inp.enabled = Absent => out.val.enabled = FALSE
    /\ inp.start_hour = Absent => out.val.start_hour = IntV(22)
    /\ inp.end_hour = Absent => out.val.end_hour = IntV(8)

\* C20: for every input, decode_dnd returns a well-formed DndSchedule:
\* enabled is a boolean and start_hour and end_hour are integers in 0..23; a
\* component whose nested field-1 varint is not present in the schedule
\* message keeps its default (false, 22, 8).
C20_DndWellFormed ==
    /\ pc = "decode_dnd" => DndWellFormed
    /\ (pc = "decode_dnd" /\ inp.kind = "dnd_message" /\ Walked("decode_dnd")) =>
           DndDefaultsKept

\* C20 on the messages whose hours are within 0..23, and on every other
\* kind of input
DndWellFormedOfHours ==
    /\ (pc = "decode_dnd" /\ inp.kind # "dnd_message") => DndWellFormed
    /\ (pc = "decode_dnd" /\ inp.kind = "dnd_message" /\ Walked("decode_dnd")) =>
           /\ DndDefaultsKept
           /\ ({inp.start_hour, inp.end_hour} \subseteq {Absent} \cup (0 .. 23)) =>
                  DndWellFormed

\* C26: decode_work_status sets mode only from a field numbered 1 with wire
\* type 0 inside the nested Mode message; a Mode message whose first field
\* has another field number or another wire type leaves mode at "unknown"
C26_ModeOnlyFromFieldOneVarint ==
    (pc = "decode_work_status" /\ inp.kind = "work_mode"
        /\ Walked("decode_work_status")) =>
        out.val.mode =
            IF inp.fn = 1 /\ inp.wt = 0
            THEN IF inp.code \in 0 .. 9 THEN Name(WORK_MODE_MAP[inp.code + 1])
                 ELSE Fmt("mode_", IntV(inp.code))
            ELSE Name("unknown")

\* the same for the Mode messages whose first field is field 1 as a varint,
\* or a tag of wire type 3 (which decode_protobuf_field does not decode)
ModeOfFieldOneVarint ==
    (pc = "decode_work_status" /\ inp.kind = "work_mode"
        /\ Walked("decode_work_status")
        /\ ((inp.fn = 1 /\ inp.wt = 0) \/ inp.wt = 3)) =>
        out.val.mode =
            IF inp.wt = 0
            THEN IF inp.code \in 0 .. 9 THEN Name(WORK_MODE_MAP[inp.code + 1])
                 ELSE Fmt("mode_", IntV(inp.code))
            ELSE Name("unknown")

(***************************************************************************)
(* SpecEncoders: each domain encoder applied to arguments of its types      *)
(***************************************************************************)
\* a room list has at most MaxRooms rooms (and the two long lists below)
MaxRooms == 3
\* room ids of one and of two varint bytes
RoomIds == {0, 3, 7, 200}
\* long room lists: the command of 20 rooms is a message of 126 bytes, from
\* 21 rooms on the length prefixes of the message and of SelectRoomsClean
\* take two bytes
LongRoomLists == {[i \in 1 .. n |-> i] : n \in {20, 21, 22}}
\* clean_times of one and of two varint bytes
CleanTimes == {0, 1, 2, 200}
\* the methods of the control constants, and one outside them
ControlMethods == {0, 1, 3, 6, 12, 13, 14, 24, 200}
\* params: None, the empty dict, dicts with and without clean_times
ParamsDrawn ==
    {NoParams, Params({})}
        \cup {Params({<<"clean_times", t>>}) : t \in CleanTimes}
        \cup {Params({<<"seq", 5>>})}
        \cup {Params({<<"clean_times", t>>, <<"seq", 5>>}) : t \in CleanTimes}
SceneIdsDrawn == {0, 7, 24, 300}

InitEncoders ==
    /\ pc = "start"
    /\ out = Returned(<<>>)
    /\ wire = <<>>
    /\ \/ \E method \in ControlMethods : \E params \in ParamsDrawn :
            inp = [kind |-> "control", method |-> method, params |-> params]
       \/ \E room_ids \in SeqsUpTo(RoomIds, MaxRooms) \cup LongRoomLists :
          \E clean_times \in CleanTimes :
            inp = [kind |-> "rooms", room_ids |-> room_ids,
                   clean_times |-> clean_times]
       \/ \E scene_id \in SceneIdsDrawn :
            inp = [kind |-> "scene", scene_id |-> scene_id]
       \/ \E enabled \in BOOLEAN : \E start_hour \in Hours : \E end_hour \in Hours :
            inp = [kind |-> "dnd", enabled |-> enabled,
                   start_hour |-> start_hour, end_hour |-> end_hour]
       \/ \E clean_type \in OptionalEnum : \E mop_level \in OptionalEnum :
          \E clean_extent \in OptionalEnum : \E clean_times \in CleanTimes :
            inp = [kind |-> "clean_param", clean_type |-> clean_type,
                   mop_level |-> mop_level, clean_extent |-> clean_extent,
                   clean_times |-> IntV(clean_times)]

EncodeControlCommand ==
    /\ pc = "start"
    /\ inp.kind = "control"
    /\ wire' = encode_control_command(inp.method, inp.params)
    /\ pc' = "encode_control_command"
    /\ UNCHANGED <<inp, out>>

EncodeRoomCleanCommand ==
    /\ pc = "start"
    /\ inp.kind = "rooms"
    /\ wire' = encode_room_clean_command(inp.room_ids, inp.clean_times)
    /\ pc' = "encode_room_clean_command"
    /\ UNCHANGED <<inp, out>>

EncodeSceneCleanCommand ==
    /\ pc = "start"
    /\ inp.kind = "scene"
    /\ wire' = encode_scene_clean_command(inp.scene_id)
    /\ pc' = "encode_scene_clean_command"
    /\ UNCHANGED <<inp, out>>

NextEncoders ==
    \/ EncodeControlCommand
    \/ EncodeRoomCleanCommand
    \/ EncodeSceneCleanCommand
    \/ EncodeDnd
    \/ EncodeCleanParam

SpecEncoders == InitEncoders /\ [][NextEncoders]_vars

\* the bytes an encoder returned, and the message after the length prefix
Encoded == b64decode(wire).data
EncodedMessage ==
    LET v == decode_varint(Encoded, 0) IN Slice(Encoded, v[2], Len(Encoded))

RECURSIVE FieldsOf(_, _)
\* the fields of a message from pos on, as decode_protobuf_field returns
\* them one after the other
FieldsOf(data, pos) ==
    LET f == decode_protobuf_field(data, pos)
    IN  IF f.fn = -1 THEN <<>>
        ELSE <<[fn |-> f.fn, wt |-> f.wt, value |-> f.value]>>
                 \o FieldsOf(data, f.pos)

\* a varint field and a length-delimited field as FieldsOf lists them
VarintField(fn, n) == [fn |-> fn, wt |-> 0, value |-> IntV(n)]
IsMessageField(f, fn) == f.fn = fn /\ f.wt = 2 /\ f.value.k = "bytes"

\* C21: the room command field-walks to field 1 = method 1 and a field-4
\* SelectRoomsClean message holding exactly k Room entries in input order,
\* the i-th with f1 = r_i and f2 = i, followed by field 2 = clean_times
C21_RoomCommandStructure ==
    pc = "encode_room_clean_command" =>
        \A top \in {FieldsOf(EncodedMessage, 0)} :
            /\ Len(top) = 2
            /\ top[1] = VarintField(1, 1)
            /\ IsMessageField(top[2], 4)
            /\ \A sel \in {FieldsOf(top[2].value.b, 0)} :
                 LET k == Len(inp.room_ids)
                 IN  /\ Len(sel) = k + 1
                     /\ \A i \in 1 .. k :
                          /\ IsMessageField(sel[i], 1)
                          /\ FieldsOf(sel[i].value.b, 0)
                                 = <<VarintField(1, inp.room_ids[i]),
                                     VarintField(2, i)>>
                     /\ sel[k + 1] = VarintField(2, inp.clean_times)

\* the spec's example encode_room_clean_command([7, 3], 2) has been encoded
C21_Witness ==
    /\ pc = "encode_room_clean_command"
    /\ inp.room_ids = <<7, 3>>
    /\ inp.clean_times = 2
    /\ Encoded = <<18, 8, 1, 34, 14, 10, 4, 8, 7, 16, 1, 10, 4, 8, 3, 16, 2, 16, 2>>

\* the fields of a control command: field 1 = method, and with auto_clean
\* also field 3 holding the message {f1: clean_times}
ControlFields(method, auto_clean, clean_times) ==
    \A top \in {FieldsOf(EncodedMessage, 0)} :
        IF auto_clean
        THEN /\ Len(top) = 2
             /\ top[1] = VarintField(1, method)
             /\ IsMessageField(top[2], 3)
             /\ FieldsOf(top[2].value.b, 0) = <<VarintField(1, clean_times)>>
        ELSE top = <<VarintField(1, method)>>

\* C22: encode_control_command emits field 1 = method and nothing else,
\* except that for method 0 called with params (a dict, not None) it also
\* emits field 3 carrying {f1: clean_times}, clean_times from params and 1
\* when params has none
C22_ControlCommandFields ==
    pc = "encode_control_command" =>
        ControlFields(inp.method,
                      inp.method = 0 /\ ~inp.params.none,
                      DictGet(inp.params.items, "clean_times", 1))

\* the same with field 3 emitted for method 0 and a dict that is not empty
ControlCommandFieldsOfNonEmptyParams ==
    pc = "encode_control_command" =>
        ControlFields(inp.method,
                      inp.method = 0 /\ ~inp.params.none /\ inp.params.items # {},
                      DictGet(inp.params.items, "clean_times", 1))

\* C23: the base64-decoded output of each encoder is encode_varint(n)
\* followed by exactly n message bytes, for messages of 128 bytes and more
\* as well, so that the framing detection (the leading varint equals the
\* number of bytes after it) accepts it
C23_EncodersFrameOutput ==
    pc # "start" =>
        /\ b64decode(wire).ok
        /\ \A data \in {Encoded} :
             /\ \E p \in 1 .. Len(data) :
                  LET n == Len(data) - p
                  IN  /\ Slice(data, 0, p) = encode_varint(n)
                      /\ decode_varint(data, 0) = <<n, p>>
             /\ decode_varint(data, 0)[1] = Len(EncodedMessage)

\* a room command of 21 rooms has been encoded: 133 message bytes after the
\* two-byte prefix 85 01
C23_Witness ==
    /\ pc = "encode_room_clean_command"
    /\ Len(inp.room_ids) = 21
    /\ Len(Encoded) = 135
    /\ Slice(Encoded, 0, 2) = <<133, 1>>

(***************************************************************************)
(* SpecBuffer: decode_varint and decode_protobuf_field applied at every     *)
(* position of a received buffer, whole or cut short                        *)
(***************************************************************************)
\* buffers with values of more than 50 bytes, which _collect walks by a
\* call of itself: up to three levels of nesting, with the inner message
\* whole, behind its length prefix, or starting with a tag that passes for
\* a length
Zeros(n) == [i \in 1 .. n |-> 0]
Framed(msg) == encode_varint(Len(msg)) \o msg
NestedBuffers ==
    LET blob  == Msg(2, Zeros(51))
        inner == Num(1, 16) \o blob
        outer == Num(1, 20) \o Msg(3, inner)
    IN  {blob, inner, outer,
         Msg(3, encode_varint(Len(inner)) \o inner),
         encode_varint(Len(outer)) \o outer,
         Msg(4, outer) \o <<11>>,
         Msg(3, Msg(2, [i \in 1 .. 60 |-> 8])),
         Framed(Msg(2, Framed(Msg(3, Framed(Msg(4, Zeros(51)))))))}

InitBuffer ==
    /\ pc = "start"
    /\ out = NoField(0)
    /\ \E data \in SeqsUpTo(RawBytes, MaxRaw) \cup NestedBuffers :
       \E pos \in 0 .. Len(data) :
          /\ inp = [kind |-> "buffer", pos |-> pos]
          /\ wire = data

DecodeVarintAt ==
    /\ pc = "start"
    /\ LET r == decode_varint(wire, inp.pos)
       IN  out' = [fn |-> -1, wt |-> -1, value |-> IntV(r[1]), pos |-> r[2]]
    /\ pc' = "decode_varint"
    /\ UNCHANGED <<inp, wire>>

DecodeFieldAt ==
    /\ pc = "start"
    /\ out' = decode_protobuf_field(wire, inp.pos)
    /\ pc' = "decode_protobuf_field"
    /\ UNCHANGED <<inp, wire>>

\* _collect(data) of the map parser on the buffer
Collect ==
    /\ pc = "start"
    /\ inp.pos = 0
    /\ out' = collect(wire, NoneCollected)
    /\ pc' = "collect"
    /\ UNCHANGED <<inp, wire>>

\* decode_clean_speed on the base64 text of the buffer: its loop (lines
\* 243-249) has no break for a field number None
WalkCleanSpeed ==
    /\ pc = "start"
    /\ inp.pos = 0
    /\ out' = decode_clean_speed(StrV(b64encode(wire)))
    /\ pc' = "decode_clean_speed"
    /\ UNCHANGED <<inp, wire>>

NextBuffer == DecodeVarintAt \/ DecodeFieldAt \/ Collect \/ WalkCleanSpeed

SpecBuffer == InitBuffer /\ [][NextBuffer]_vars

\* the length a wire-type-2 field at inp.pos declares: the varint after the tag
DeclaredLength ==
    decode_varint(wire, decode_varint(wire, inp.pos)[2])[1]

\* C24: for a wire-type-2 field with declared length L, decode_protobuf_field
\* returns a value of exactly L bytes and a next position that does not
\* exceed the buffer length, also for a buffer that ends inside the value
C24_LengthDelimitedStaysInBuffer ==
    (pc = "decode_protobuf_field" /\ out.wt = 2) =>
        /\ Len(out.value.b) = DeclaredLength
        /\ out.pos <= Len(wire)

\* the same for the buffers that hold the whole declared value
LengthDelimitedOfWholeValue ==
    (/\ pc = "decode_protobuf_field"
     /\ out.wt = 2
     /\ decode_varint(wire, decode_varint(wire, inp.pos)[2])[2] + DeclaredLength
            <= Len(wire)) =>
        /\ Len(out.value.b) = DeclaredLength
        /\ out.pos <= Len(wire)

\* C27: every field walk terminates: decode_varint and
\* decode_protobuf_field called with pos < len(buffer) return a next
\* position strictly greater than pos, so a while-loop over the buffer makes
\* at most len(buffer) - pos iterations (and decode_clean_speed returns),
\* and each recursive _collect call of the map parser receives a strictly
\* shorter buffer than its caller
C27_FieldWalksTerminate ==
    /\ \A pos \in 0 .. Len(wire) - 1 :
         /\ decode_varint(wire, pos)[2] > pos
         /\ decode_protobuf_field(wire, pos).pos > pos
    /\ pc = "decode_varint" /\ inp.pos < Len(wire) => out.pos > inp.pos
    /\ pc = "decode_protobuf_field" /\ inp.pos < Len(wire) =>
         /\ out.pos > inp.pos
         /\ Len(FieldsOf(wire, inp.pos)) <= Len(wire) - inp.pos
    /\ pc = "decode_clean_speed" => ~out.raised
    /\ pc = "collect" =>
         \A i \in 1 .. Len(out.calls) : out.calls[i][2] < out.calls[i][1]

\* _collect has walked a buffer through three nested calls of itself, each
\* on a shorter buffer
C27_Witness ==
    /\ pc = "collect"
    /\ Len(out.calls) = 3
    /\ out.calls[1][1] > out.calls[1][2]
    /\ out.calls[2][1] = out.calls[1][2]
    /\ out.calls[3][1] = out.calls[2][2]

(***************************************************************************)
(* SpecMap: the map parser on map messages (up to MaxMapVarints varint     *)
(* fields and a blob field, framed or not), with every way the              *)
(* decompressor can end, and on arbitrary text                              *)
(***************************************************************************)
\* a map message has at most MaxMapVarints varint fields
MaxMapVarints == 2
\* the values of the varint fields: on both sides of the range 8..2048
MapVarints == {7, 8, 10, 16, 20, 2049}
\* the field number of the varint fields (their tag is 08 or 78)
MapVarintFields == {1, 15}
\* blob lengths on both sides of the 50-byte threshold
BlobLens == {8, 50, 51, 64}
\* the byte a blob is filled with
BlobFills == {0, 16}
\* messages whose largest blob is empty: an empty blob, and a long blob of
\* bytes 02, which reads as a run of empty length-delimited fields
EmptyBlobLens == {0, 64}
EmptyBlobFill == 2

\* the byte a decompressed block is filled with (the codes 3, 2, 1, 0)
Lz4Fill == 27

\* the decompressor is not installed, or rejects the block
Lz4Failures ==
    {[outcome |-> "ImportError", len |-> 0, fill |-> 0],
     [outcome |-> "Exception", len |-> 0, fill |-> 0]}

\* the decompressor returns len bytes
Lz4Output(len) == [outcome |-> "Output", len |-> len, fill |-> Lz4Fill]

\* output lengths tried with every message: the length of an 8-byte and of a
\* 50-byte blob (the first candidate size of such a blob), and one that is
\* no candidate size
Lz4ShortLens == {8, 50, 49}

\* output lengths tried with a few messages: the candidate sizes 65536,
\* 16384 and 262144, and 16383
Lz4LongLens == {512 * 128, 256 * 64, 1024 * 256, (256 * 64) - 1}

\* the message: the varint fields, then the blob as field 2
MapMessage(varints, fn, len, fill) ==
    (IF Len(varints) >= 1 THEN Num(fn, varints[1]) ELSE <<>>)
        \o (IF Len(varints) >= 2 THEN Num(fn, varints[2]) ELSE <<>>)
        \o (IF Len(varints) >= 3 THEN Num(fn, varints[3]) ELSE <<>>)
        \o Msg(2, [i \in 1 .. len |-> fill])

\* the base64 text of a message, with its length prefix when framed
MapWire(body, framed) ==
    b64encode(IF framed THEN encode_varint(Len(body)) \o body ELSE body)

InitMap ==
    /\ pc = "start"
    /\ out = Returned(NoMap)
    /\ \/ \E varints \in SeqsUpTo(MapVarints, MaxMapVarints) :
          \E fn \in MapVarintFields : \E len \in BlobLens :
          \E fill \in BlobFills : \E framed \in BOOLEAN :
          \E lz4 \in Lz4Failures \cup {Lz4Output(n) : n \in Lz4ShortLens} :
             /\ inp = [kind |-> "message", varints |-> varints, fn |-> fn,
                       len |-> len, fill |-> fill, framed |-> framed,
                       lz4 |-> lz4]
             /\ wire = MapWire(MapMessage(varints, fn, len, fill), framed)
       \/ \E varints \in {<<>>, <<7>>, <<16>>} : \E fn \in MapVarintFields :
          \E len \in EmptyBlobLens : \E framed \in BOOLEAN :
          \E lz4 \in Lz4Failures :
             /\ inp = [kind |-> "message", varints |-> varints, fn |-> fn,
                       len |-> len, fill |-> EmptyBlobFill, framed |-> framed,
                       lz4 |-> lz4]
             /\ wire = MapWire(MapMessage(varints, fn, len, EmptyBlobFill), framed)
       \/ \E len \in {8, 50} : \E n \in Lz4LongLens :
             /\ inp = [kind |-> "message", varints |-> <<16>>, fn |-> 15,
                       len |-> len, fill |-> 16, framed |-> TRUE,
                       lz4 |-> Lz4Output(n)]
             /\ wire = MapWire(MapMessage(<<16>>, 15, len, 16), TRUE)
       \/ \E text \in SeqsUpTo(TextAlphabet, MaxChars) :
          \E lz4 \in Lz4Failures :
             /\ inp = [kind |-> "text", lz4 |-> lz4]
             /\ wire = text

ParseMapResponse ==
    /\ pc = "start"
    /\ out' = parse_map_response(wire, inp.lz4)
    /\ pc' = "parse_map_response"
    /\ UNCHANGED <<inp, wire>>

NextMap == ParseMapResponse

SpecMap == InitMap /\ [][NextMap]_vars

\* C10: in the collection step a blob longer than 50 bytes whose recursive
\* walk yields no blobs is itself collected as an opaque blob; hence a
\* message holding one varint 16 and one 64-byte blob yields a MapPayload
\* with width = height = 16, never the absent value.
C10_LongBlobIsCollected ==
    (pc = "parse_map_response" /\ inp.kind = "message"
        /\ inp.varints = <<16>> /\ inp.len = 64) =>
        /\ ~out.val.none
        /\ out.val.width = 16
        /\ out.val.height = 16

\* what the collection step gathers from the bytes the text decodes to
MapGot == collect(b64decode(wire).data, NoneCollected)

\* the blob the parser selects
SelectedBlob == LargestBlob(MapGot.blobs)

\* the candidate byte lengths, in the order they are tried
CandidateLens == <<Len(SelectedBlob), 65536, 16384, 262144>>

\* the i-th candidate passes the guard and the decompressor returns exactly
\* that many bytes
Succeeds(i) ==
    /\ 0 < CandidateLens[i]
    /\ CandidateLens[i] <= 1024 * 1024
    /\ CandidateLens[i] >= Len(SelectedBlob) \div 2
    /\ Len(decompress_lz4(SelectedBlob, CandidateLens[i], inp.lz4)) = CandidateLens[i]

\* the bytes the claims expect as pixel data: the result of the first
\* candidate that succeeds, else the selected blob
PixelData ==
    IF \E i \in 1 .. 4 : Succeeds(i)
    THEN decompress_lz4(SelectedBlob,
             CandidateLens[CHOOSE i \in 1 .. 4 :
                 Succeeds(i) /\ \A j \in 1 .. i - 1 : ~Succeeds(j)], inp.lz4)
    ELSE SelectedBlob

\* the collected varints lying in 8..2048
InRange == SelectSeq(MapGot.varints, LAMBDA v : 8 <= v /\ v <= 2048)

\* the entries of a sequence of integers that has one occurrence of v less
Without(seq, v) ==
    LET at == CHOOSE i \in 1 .. Len(seq) : seq[i] = v
    IN  SubSeq(seq, 1, at - 1) \o SubSeq(seq, at + 1, Len(seq))

\* the greatest entry of a non-empty sequence of integers
Top(seq) == CHOOSE v \in {seq[i] : i \in 1 .. Len(seq)} :
                \A i \in 1 .. Len(seq) : seq[i] <= v

\* the integer square root of P, 256 when that is 0
RootOrDefault(P) ==
    LET r == CHOOSE r \in 0 .. P : r * r <= P /\ (r + 1) * (r + 1) > P
    IN  IF r = 0 THEN 256 ELSE r

\* the inference rule of C11 on the collected varints and the pixel count
InferredBy(C, P) ==
    IF Len(C) >= 2
    THEN LET c0 == Top(C)
             c1 == Top(Without(C, c0))
         IN  IF c0 * c1 > 2 * P \/ 2 * (c0 * c1) < P
             THEN <<RootOrDefault(P), RootOrDefault(P)>>
             ELSE <<c0, c1>>
    ELSE IF Len(C) = 1 THEN <<C[1], C[1]>>
    ELSE <<RootOrDefault(P), RootOrDefault(P)>>

\* a payload was returned for a message
PayloadReturned ==
    pc = "parse_map_response" /\ inp.kind = "message" /\ ~out.val.none

\* the rule of C11 relative to what was collected
DimensionRule ==
    PayloadReturned =>
        <<out.val.width, out.val.height>> = InferredBy(InRange, 4 * Len(PixelData))

\* the example of C11: varints 20 and 10 with a 50-byte blob
TwentyByTen ==
    (pc = "parse_map_response" /\ inp.kind = "message"
        /\ inp.varints \in {<<20, 10>>, <<10, 20>>} /\ inp.len = 50) =>
        /\ ~out.val.none
        /\ out.val.width = 20
        /\ out.val.height = 10

\* C11: map dimension inference: with C the collected varints in 8..2048
\* sorted descending and P four times the number of pixel bytes, the
\* dimensions are (C[0], C[1]) unless the product is above 2P or below P/2,
\* (C[0], C[0]) for a single candidate, and isqrt(P) (256 when 0) otherwise;
\* in particular varints 20 and 10 with a 50-byte blob give width 20,
\* height 10.
C11_DimensionInference == DimensionRule /\ TwentyByTen

\* C12: decompression guard: the selected blob is replaced by a
\* decompression result only when the result's length equals the candidate
\* byte length being tried, the candidate is at most 1 MiB and at least half
\* the blob length, and it is the first candidate to succeed; otherwise the
\* raw blob bytes are the pixel data.
C12_DecompressionGuard ==
    PayloadReturned =>
        /\ <<out.val.width, out.val.height>> = InferredBy(InRange, 4 * Len(PixelData))
        /\ out.val.pixels = parse_map_pixels(PixelData, out.val.width, out.val.height)

\* the decompressor returned 16384 bytes for an 8-byte blob: the first two
\* candidates failed, the third one replaced the blob
C12_Witness ==
    /\ PayloadReturned
    /\ inp.lz4.outcome = "Output" /\ inp.lz4.len = 16384 /\ inp.len = 8
    /\ ~Succeeds(1) /\ ~Succeeds(2) /\ Succeeds(3)
    /\ out.val.width = 16
    /\ out.val.pixels[1][1] = 3

\* C13: every MapPayload returned has positive width and height and a grid
\* of exactly height rows of exactly width codes in 0..3; the code at row y,
\* column x is bits 2k..2k+1 of pixel byte b where 4b + k = y*width + x, and
\* 0 when that index lies beyond the pixel data.
C13_PixelGrid ==
    (pc = "parse_map_response" /\ ~out.val.none) =>
        \A data \in {PixelData} : \A w \in {out.val.width} : \A h \in {out.val.height} :
            /\ w > 0 /\ h > 0
            /\ Len(out.val.pixels) = h
            /\ \A y \in 0 .. h - 1 :
                 /\ Len(out.val.pixels[y + 1]) = w
                 /\ \A x \in 0 .. w - 1 :
                      LET code == out.val.pixels[y + 1][x + 1]
                          idx  == (y * w) + x
                          b    == idx \div 4
                          k    == idx % 4
                      IN  /\ code \in 0 .. 3
                          /\ code = IF b < Len(data)
                                    THEN (data[b + 1] \div Pow2(2 * k)) % 4
                                    ELSE 0

\* a 20 x 20 grid over an 8-byte blob of bytes 16: the third code of the
\* first byte is 1, and the rows from the third on are beyond the data
C13_Witness ==
    /\ PayloadReturned
    /\ out.val.width = 20 /\ out.val.height = 20
    /\ inp.len = 8 /\ inp.fill = 16 /\ PixelData = SelectedBlob
    /\ out.val.pixels[1][3] = 1
    /\ out.val.pixels[3][1] = 0

\* the bytes handed to the first call of _collect
MapBytes == b64decode(wire).data

\* the message is framed as the framing detection has it: its leading varint
\* equals the number of bytes after it
ExactlyFramed(msg) ==
    /\ Len(msg) >= 2
    /\ decode_varint(msg, 0)[1] = Len(msg) - decode_varint(msg, 0)[2]

\* C25: _collect treats the message as framed only if its leading varint
\* equals the number of bytes after it; an unframed message (one that starts
\* with the tag byte 08 and has more than 8 following bytes, say) is walked
\* whole from position 0, so its first field is not lost
C25_CollectFramingDetection ==
    (pc = "parse_map_response" /\ inp.kind = "message") =>
        \A data \in {MapBytes} :
            /\ CollectMessage(data)
                   = IF ExactlyFramed(data)
                     THEN Slice(data, decode_varint(data, 0)[2], Len(data))
                     ELSE data
            /\ (~ExactlyFramed(data) /\ inp.varints # <<>>) =>
                   /\ MapGot.varints # <<>>
                   /\ MapGot.varints[1] = inp.varints[1]

\* the same for the messages sent with their length prefix
CollectFramingOfFramed ==
    (pc = "parse_map_response" /\ inp.kind = "message" /\ inp.framed) =>
        \A data \in {MapBytes} :
            /\ ExactlyFramed(data)
            /\ CollectMessage(data) = Slice(data, decode_varint(data, 0)[2], Len(data))
            /\ inp.varints # <<>> =>
                   /\ MapGot.varints # <<>>
                   /\ MapGot.varints[1] = inp.varints[1]

(***************************************************************************)
(* Device state (api/controllers.py, const.py).  In SpecDevice inp is the   *)
(* device configuration, wire the DPS update last received and out the      *)
(* device object's _robovac_data.  A dict is a function on its keys, a DPS  *)
(* update the sequence of its <<key, value>> items.                         *)
(***************************************************************************)
\* const.py: the DPS maps, as their <<logical name, DPS key>> items in order
LEGACY_DPS_MAP ==
    << <<"PLAY_PAUSE", "2">>, <<"DIRECTION", "3">>, <<"WORK_MODE", "5">>,
       <<"WORK_STATUS", "15">>, <<"CLEANING_PARAMETERS", "154">>,
       <<"CLEANING_STATISTICS", "167">>, <<"ACCESSORIES_STATUS", "168">>,
       <<"GO_HOME", "101">>, <<"CLEAN_SPEED", "102">>, <<"FIND_ROBOT", "103">>,
       <<"BATTERY_LEVEL", "104">>, <<"ERROR_CODE", "106">>, <<"MAP_DATA", "165">> >>

NOVEL_DPS_MAP ==
    << <<"PLAY_PAUSE", "152">>, <<"DIRECTION", "155">>, <<"WORK_MODE", "153">>,
       <<"WORK_STATUS", "153">>, <<"CLEANING_PARAMETERS", "154">>,
       <<"CLEANING_STATISTICS", "167">>, <<"ACCESSORIES_STATUS", "168">>,
       <<"GO_HOME", "173">>, <<"CLEAN_SPEED", "158">>, <<"FIND_ROBOT", "160">>,
       <<"BATTERY_LEVEL", "163">>, <<"ERROR_CODE", "177">>, <<"MAP_DATA", "170">>,
       <<"VOLUME", "161">>, <<"SCENE_LIST", "180">>, <<"DND", "157">>,
       <<"BOOST_IQ", "159">> >>

\* __init__: self._dps_map
DpsMapOf(api_type) == IF api_type = "novel" THEN NOVEL_DPS_MAP ELSE LEGACY_DPS_MAP

\* the empty dict, and d after d[key] = value
EmptyDict == [k \in {} |-> NoneV]
DictSet(d, key, value) ==
    [k \in DOMAIN d \cup {key} |-> IF k = key THEN value ELSE d[k]]

\* one iteration of the loop over dps.items() in map_data (lines 120-128):
\* the first map_key whose map_value is the key takes the value; a key that
\* is no map_value is stored under the raw key
MapItem(robovac_data, dps_map, key, value) ==
    LET mapped_values == {dps_map[i][2] : i \in 1 .. Len(dps_map)}
        hits == {i \in 1 .. Len(dps_map) : dps_map[i][2] = key}
    IN  IF hits # {}
        THEN DictSet(robovac_data,
                     dps_map[CHOOSE i \in hits : \A j \in hits : i <= j][1], value)
        ELSE IF key \notin mapped_values
        THEN DictSet(robovac_data, key, value)
        ELSE robovac_data

\* map_data starting from an empty dict at each update (used as a mutant)
MapDataFromEmpty(robovac_data, dps_map, dps) ==
    LET Loop[i \in 0 .. Len(dps)] ==
            IF i = 0 THEN EmptyDict
            ELSE MapItem(Loop[i - 1], dps_map, dps[i][1], dps[i][2])
    IN  Loop[Len(dps)]

\* map_data(dps): self._robovac_data after the loop
map_data(robovac_data, dps_map, dps) ==
    LET Loop[i \in 0 .. Len(dps)] ==
            IF i = 0 THEN robovac_data
            ELSE MapItem(Loop[i - 1], dps_map, dps[i][1], dps[i][2])
    IN  Loop[Len(dps)]

\* is_base64_encoded(value) (proto_utils.py): a str of 4 characters or more
\* that b64decode accepts and that matches ^[A-Za-z0-9+/]*={0,2}$
is_base64_encoded(value) ==
    /\ value.k = "str"
    /\ Len(value.b) >= 4
    /\ b64decode(value.b).ok
    /\ \E pads \in 0 .. 2 :
         \A i \in 1 .. Len(value.b) :
            IF i > Len(value.b) - pads THEN value.b[i] = 61
            ELSE B64Val(value.b[i]) < 64

\* self._robovac_data.get(key, default)
DataGet(robovac_data, key, default) ==
    IF key \in DOMAIN robovac_data THEN robovac_data[key] ELSE default

\* a str the getters return as it is
Text(t) == Fmt("", StrV(t))

\* get_work_status() (lines 156-167)
get_work_status(robovac_data, novel_api) ==
    LET status == DataGet(robovac_data, "WORK_STATUS", StrV(<<>>))
    IN  IF novel_api /\ status.k = "str" /\ is_base64_encoded(status)
        THEN decode_work_status(status.b).val.state
        ELSE IF status.k = "str" THEN Text(Lower(status.b))
        ELSE Name("charging")

\* get_work_mode() (lines 169-180)
get_work_mode(robovac_data, novel_api) ==
    LET mode == DataGet(robovac_data, "WORK_MODE", StrV(<<>>))
    IN  IF novel_api /\ mode.k = "str" /\ is_base64_encoded(mode)
        THEN decode_work_status(mode.b).val.mode
        ELSE IF mode.k = "str" THEN Text(Lower(mode.b))
        ELSE Name("auto")

(***************************************************************************)
(* SpecDevice: a device receives DPS updates                                *)
(***************************************************************************)
\* a DPS update has 1..MaxDpsKeys keys
MaxDpsKeys == 2
\* DPS keys: 153 and 163 are in the novel map, 15 in the legacy map, 999 in
\* neither
DpsKeys == {"153", "163", "15", "999"}
\* work-status values: State 5 with Mode 8 framed, State 3 with Mode 0 and
\* Charging unframed
WorkStatusTexts ==
    {Wire(WorkStatusMessage(5, 8, FALSE, TRUE, FALSE), TRUE),
     Wire(WorkStatusMessage(3, 0, TRUE, FALSE, FALSE), FALSE)}
\* the values a key is sent with; "Running" is a legacy work status
DpsValues(key) ==
    IF key = "153" THEN {StrV(t) : t \in WorkStatusTexts}
    ELSE IF key = "163" THEN {IntV(50), IntV(80)}
    ELSE IF key = "15" THEN {StrV(<<82, 117, 110, 110, 105, 110, 103>>)}
    ELSE {StrV(<<120>>)}
\* the updates: sequences of items with distinct keys
DpsUpdates ==
    {dps \in SeqsUpTo({<<k, v>> : k \in DpsKeys,
                                  v \in UNION {DpsValues(x) : x \in DpsKeys}},
                      MaxDpsKeys) :
        /\ dps # <<>>
        /\ \A i \in 1 .. Len(dps) : dps[i][2] \in DpsValues(dps[i][1])
        /\ \A i, j \in 1 .. Len(dps) : i # j => dps[i][1] # dps[j][1]}

InitDevice ==
    /\ pc = "start"
    /\ wire = <<>>
    /\ out = EmptyDict
    /\ \E api_type \in {"novel", "legacy"} :
          inp = [kind |-> "device", api_type |-> api_type]

\* map_data(dps); the update callbacks it then calls read the device and do
\* not change it
MapData ==
    /\ \E dps \in DpsUpdates :
          /\ wire' = dps
          /\ out' = map_data(out, DpsMapOf(inp.api_type), dps)
    /\ pc' = "map_data"
    /\ UNCHANGED inp

NextDevice == MapData

SpecDevice == InitDevice /\ [][NextDevice]_vars

\* the value the update last received carries for a DPS key
Sent(dps, key) == (CHOOSE i \in 1 .. Len(dps) : dps[i][1] = key)
HasKey(dps, key) == \E i \in 1 .. Len(dps) : dps[i][1] = key
ValueOf(dps, key) == dps[Sent(dps, key)][2]

\* C28: on a novel-API device, after map_data receives a DPS update
\* containing key "153" with a base64 work-status value v, both logical
\* names that share the key are populated: get_work_status() returns the
\* state decoded from v and get_work_mode() returns the mode decoded from v
C28_SharedKeyPopulatesBoth ==
    (pc = "map_data" /\ inp.api_type = "novel" /\ HasKey(wire, "153")) =>
        \A v \in {ValueOf(wire, "153")} :
            /\ get_work_status(out, TRUE) = decode_work_status(v.b).val.state
            /\ get_work_mode(out, TRUE) = decode_work_status(v.b).val.mode

\* the mode half of C28
SharedKeyPopulatesMode ==
    (pc = "map_data" /\ inp.api_type = "novel" /\ HasKey(wire, "153")) =>
        \A v \in {ValueOf(wire, "153")} :
            /\ get_work_mode(out, TRUE) = decode_work_status(v.b).val.mode
            /\ get_work_mode(out, TRUE) \in {Name("scene"), Name("auto")}

\* the entries of the device state a DPS update is about: for a key of the
\* device's map the logical names of that key, for any other key the raw key
EntriesOf(dps, dps_map) ==
    {dps_map[i][1] : i \in {j \in 1 .. Len(dps_map) : HasKey(dps, dps_map[j][2])}}
        \cup {dps[i][1] : i \in {j \in 1 .. Len(dps) :
                  \A m \in 1 .. Len(dps_map) : dps_map[m][2] # dps[j][1]}}

\* C29: across any sequence of updates, map_data(dps) changes only the
\* device-state entries for DPS keys present in dps (stored under the
\* logical name for mapped keys, under the raw key for unmapped ones): every
\* entry stored by an earlier update and not named in dps keeps its value,
\* and no entry is ever removed
C29_MapDataFrame ==
    [][\A dps \in {wire'} : \A dps_map \in {DpsMapOf(inp.api_type)} :
          /\ DOMAIN out \subseteq DOMAIN out'
          /\ DOMAIN out' \subseteq DOMAIN out \cup EntriesOf(dps, dps_map)
          /\ \A name \in DOMAIN out \ EntriesOf(dps, dps_map) : out'[name] = out[name]
          /\ \A i \in 1 .. Len(dps) :
                \E name \in EntriesOf(dps, dps_map) :
                   /\ name = dps[i][1] \/ \E m \in 1 .. Len(dps_map) :
                                              dps_map[m] = <<name, dps[i][1]>>
                   /\ out'[name] = dps[i][2]]_vars

\* a novel device holds the battery level 50 of an earlier update after an
\* update that carries a work status and no battery level
C29_Witness ==
    /\ pc = "map_data"
    /\ inp.api_type = "novel"
    /\ HasKey(wire, "153")
    /\ ~HasKey(wire, "163")
    /\ "BATTERY_LEVEL" \in DOMAIN out
    /\ out["BATTERY_LEVEL"] = IntV(50)
    /\ "WORK_MODE" \in DOMAIN out

(***************************************************************************)
(* SpecMqtt: an MqttDevice, its commands and the callbacks of its MQTT      *)
(* client.  The callbacks run on the client's network thread (loop_start),  *)
(* send_command and disconnect on the event loop: a callback may run        *)
(* between any two steps of send_command.  Here out is the device object    *)
(* (with the event that ran last), wire the messages published so far and   *)
(* pc the position of send_command.                                         *)
(***************************************************************************)
\* commands 1..MaxCommands are issued, in order
MaxCommands == 3
\* the return codes of a connection attempt: accepted, not authorised
ConnectCodes == {0, 5}

\* an event that is not a call of send_command
Event(name) == [ev |-> name, rc |-> 0]

InitMqtt ==
    /\ pc = "idle"
    /\ wire = <<>>
    /\ inp = [kind |-> "mqtt"]
    /\ out = [mqtt_client |-> FALSE,   \* self._mqtt_client is not None
              connected   |-> FALSE,   \* self._connected
              loop        |-> FALSE,   \* the client's network thread runs
              issued      |-> 0,       \* the commands send_command was called with
              dropped     |-> {},      \* those it returned on without publishing
              last        |-> Event("__init__")]

\* connect() with credentials and an endpoint: a client is created and its
\* network thread started
Connect ==
    /\ pc = "idle"
    /\ ~out.loop
    /\ out' = [out EXCEPT !.mqtt_client = TRUE, !.loop = TRUE,
                          !.last = Event("connect")]
    /\ UNCHANGED <<inp, wire, pc>>

\* _on_connect(client, userdata, flags, rc), on the network thread
OnConnect ==
    /\ out.loop
    /\ \E rc \in ConnectCodes :
          out' = [out EXCEPT !.connected = IF rc = 0 THEN TRUE ELSE @,
                             !.last = [ev |-> "_on_connect", rc |-> rc]]
    /\ UNCHANGED <<inp, wire, pc>>

\* _on_disconnect(client, userdata, rc), on the network thread
OnDisconnect ==
    /\ out.loop
    /\ out' = [out EXCEPT !.connected = FALSE, !.last = Event("_on_disconnect")]
    /\ UNCHANGED <<inp, wire, pc>>

\* send_command(data), lines 657-659: the test of the client and the flag
SendCommand ==
    /\ pc = "idle"
    /\ out.issued < MaxCommands
    /\ IF ~out.mqtt_client \/ ~out.connected
       THEN /\ out' = [out EXCEPT !.issued = @ + 1,
                                  !.dropped = @ \cup {out.issued + 1},
                                  !.last = Event("send_command")]
            /\ pc' = "idle"
       ELSE /\ out' = [out EXCEPT !.issued = @ + 1, !.last = Event("send_command")]
            /\ pc' = "publish_req"
    /\ UNCHANGED <<inp, wire>>

\* line 695: publish on the request topic
PublishReq ==
    /\ pc = "publish_req"
    /\ wire' = Append(wire, [cmd |-> out.issued, topic |-> "req",
                             connected |-> out.connected])
    /\ pc' = "publish_smart"
    /\ out' = [out EXCEPT !.last = Event("publish")]
    /\ UNCHANGED inp

\* line 696: publish on the smart topic, and the return
PublishSmart ==
    /\ pc = "publish_smart"
    /\ wire' = Append(wire, [cmd |-> out.issued, topic |-> "smart",
                             connected |-> out.connected])
    /\ pc' = "idle"
    /\ out' = [out EXCEPT !.last = Event("publish")]
    /\ UNCHANGED inp

\* disconnect(), on the event loop: the network thread is stopped and the
\* flag cleared
Disconnect ==
    /\ pc = "idle"
    /\ out' = IF out.mqtt_client
              THEN [out EXCEPT !.loop = FALSE, !.connected = FALSE,
                               !.last = Event("disconnect")]
              ELSE [out EXCEPT !.last = Event("disconnect")]
    /\ UNCHANGED <<inp, wire, pc>>

NextMqtt ==
    \/ Connect
    \/ OnConnect
    \/ OnDisconnect
    \/ SendCommand
    \/ PublishReq
    \/ PublishSmart
    \/ Disconnect

SpecMqtt == InitMqtt /\ [][NextMqtt]_vars

\* every message was published while the connected flag was true
PublishedWhileConnected ==
    \A i \in 1 .. Len(wire) : wire[i].connected

\* the flag becomes true only in _on_connect with rc = 0 and is false after
\* every _on_disconnect and disconnect()
FlagTransitions ==
    [][/\ (~out.connected /\ out'.connected) =>
              out'.last = [ev |-> "_on_connect", rc |-> 0]
       /\ out'.last.ev \in {"_on_disconnect", "disconnect"} /\ out'.last # out.last =>
              ~out'.connected]_vars

\* a command that found the flag false is never published
DroppedNeverPublished ==
    /\ \A i \in 1 .. Len(wire) : wire[i].cmd \notin out.dropped
    /\ \A c \in out.dropped :
          \A i \in 1 .. Len(wire) : wire[i].cmd # c

\* C30: in any interleaving of MQTT connect, disconnect and command events,
\* send_command publishes only while the connected flag is true; the flag
\* becomes true only in _on_connect with rc = 0 and becomes false on every
\* _on_disconnect and disconnect(); a command issued while the flag is false
\* is dropped and is never published later, even after a reconnect
C30_PublishOnlyWhileConnected ==
    /\ []PublishedWhileConnected
    /\ FlagTransitions
    /\ []DroppedNeverPublished

\* the same with the flag read where send_command tests it: a command is
\* published only if the flag was true at the test of line 657
PublishOnlyIfConnectedAtTest ==
    /\ [][wire' # wire => pc \in {"publish_req", "publish_smart"}]_vars
    /\ [][(pc = "idle" /\ pc' = "publish_req") => out.connected /\ out.mqtt_client]_vars
    /\ FlagTransitions
    /\ []DroppedNeverPublished

====
